---- MODULE Spec2Model ----
(***************************************************************************)
(* A model of the EURING record codec: field schema, record decoder, rule  *)
(* engine, record aggregate and format converter.                          *)
(*                                                                         *)
(* Text (a Python str) is a sequence of one-character strings, so that     *)
(* slicing, padding, stripping and splitting are computed as the code      *)
(* computes them.                                                          *)
(***************************************************************************)
EXTENDS Integers, Sequences, FiniteSets, TLC

(***************************************************************************)
(* Characters and the str methods the code uses.                           *)
(***************************************************************************)
DigitChars == <<"0", "1", "2", "3", "4", "5", "6", "7", "8", "9">>
UpperChars == <<"A", "B", "C", "D", "E", "F", "G", "H", "I", "J", "K", "L", "M", "N", "O", "P", "Q", "R", "S", "T", "U", "V", "W", "X", "Y", "Z">>
LowerChars == <<"a", "b", "c", "d", "e", "f", "g", "h", "i", "j", "k", "l", "m", "n", "o", "p", "q", "r", "s", "t", "u", "v", "w", "x", "y", "z">>

Digits == {DigitChars[i] : i \in DOMAIN DigitChars}
UpperLetters == {UpperChars[i] : i \in DOMAIN UpperChars}
LowerLetters == {LowerChars[i] : i \in DOMAIN LowerChars}
Letters == UpperLetters \cup LowerLetters

Min(a, b) == IF a < b THEN a ELSE b
Max(a, b) == IF a > b THEN a ELSE b

\* c * n
Rep(c, n) == [i \in 1..n |-> c]

\* value[a:b] with 0 <= a <= b (Python clips b to the length)
Slice(s, a, b) == SubSeq(s, a + 1, Min(b, Len(s)))

\* value[a:]
SliceFrom(s, a) == SubSeq(s, a + 1, Len(s))

\* str.isalpha(): non-empty and letters only
str_isalpha(s) == s # <<>> /\ \A i \in DOMAIN s : s[i] \in Letters

\* str.isdigit(): non-empty and digits only
str_isdigit(s) == s # <<>> /\ \A i \in DOMAIN s : s[i] \in Digits

\* str.upper()
UpperOf(c) ==
  IF c \in LowerLetters
  THEN UpperChars[CHOOSE i \in DOMAIN LowerChars : LowerChars[i] = c]
  ELSE c
str_upper(s) == [i \in DOMAIN s |-> UpperOf(s[i])]

\* str.ljust(n, c)
str_ljust(s, n, c) == IF Len(s) >= n THEN s ELSE s \o Rep(c, n - Len(s))

\* str.rjust(n, c)
str_rjust(s, n, c) == IF Len(s) >= n THEN s ELSE Rep(c, n - Len(s)) \o s

\* str.zfill(n): zeros go after a leading sign
str_zfill(s, n) ==
  IF Len(s) >= n THEN s
  ELSE IF s # <<>> /\ s[1] \in {"+", "-"}
       THEN <<s[1]>> \o Rep("0", n - Len(s)) \o Tail(s)
       ELSE Rep("0", n - Len(s)) \o s

RECURSIVE str_rstrip(_, _)
str_rstrip(s, c) ==
  IF s # <<>> /\ s[Len(s)] = c THEN str_rstrip(SubSeq(s, 1, Len(s) - 1), c) ELSE s

RECURSIVE str_lstrip(_, _)
str_lstrip(s, c) ==
  IF s # <<>> /\ s[1] = c THEN str_lstrip(Tail(s), c) ELSE s

\* str.strip(): the only whitespace of the alphabet is the space
str_strip(s) == str_lstrip(str_rstrip(s, " "), " ")

\* str.split("|"): the tokens between the separator positions
str_split(s) ==
  LET seps == SelectSeq([i \in 1..Len(s) |-> i], LAMBDA i : s[i] = "|")
      n == Len(seps)
  IN [k \in 1..(n + 1) |->
        SubSeq(s, IF k = 1 THEN 1 ELSE seps[k - 1] + 1,
                  IF k = n + 1 THEN Len(s) ELSE seps[k] - 1)]

\* sep.join(parts[lo..hi]), by halves
RECURSIVE JoinRange(_, _, _, _)
JoinRange(parts, lo, hi, sep) ==
  IF lo > hi THEN <<>>
  ELSE IF lo = hi THEN parts[lo]
  ELSE LET mid == (lo + hi) \div 2
       IN JoinRange(parts, lo, mid, sep) \o sep \o JoinRange(parts, mid + 1, hi, sep)

\* "|".join(parts)
str_join(sep, parts) == JoinRange(parts, 1, Len(parts), sep)

\* "".join(parts)
str_concat(parts) == JoinRange(parts, 1, Len(parts), <<>>)

\* "x" in value
HasChar(s, c) == \E i \in DOMAIN s : s[i] = c

\* int(text) for a text of digits
DigitVal(c) == (CHOOSE i \in DOMAIN DigitChars : DigitChars[i] = c) - 1
RECURSIVE IntOfDigits(_)
IntOfDigits(s) ==
  IF s = <<>> THEN 0
  ELSE IntOfDigits(SubSeq(s, 1, Len(s) - 1)) * 10 + DigitVal(s[Len(s)])

\* f"{n}" for a natural number
RECURSIVE StrOfNat(_)
StrOfNat(n) ==
  IF n < 10 THEN <<DigitChars[n + 1]>>
  ELSE StrOfNat(n \div 10) \o <<DigitChars[(n % 10) + 1]>>

\* is_empty / _is_empty / is_all_hyphens of a text
is_all_hyphens(s) == s # <<>> /\ \A i \in DOMAIN s : s[i] = "-"

(***************************************************************************)
(* Formats.                                                                *)
(***************************************************************************)
FORMAT_EURING2000 == "euring2000"
FORMAT_EURING2000PLUS == "euring2000plus"
FORMAT_EURING2020 == "euring2020"
FORMAT_VALUES == {FORMAT_EURING2000, FORMAT_EURING2000PLUS, FORMAT_EURING2020}
NoFormat == "none"

(***************************************************************************)
(* Field types and the canonical field table.                              *)
(***************************************************************************)
TYPE_ALPHABETIC == "Alphabetic"
TYPE_ALPHANUMERIC == "Alphanumeric"
TYPE_INTEGER == "Integer"
TYPE_NUMERIC == "Numeric"
TYPE_NUMERIC_SIGNED == "NumericSigned"
TYPE_TEXT == "Text"

\* A field definition; length 0 is "no length", empty_value <<>> is "none",
\* parser "" is "no parser hook".
FieldDef(k, t, len, req, var, p) ==
  [key |-> k, type_name |-> t, length |-> len, required |-> req,
   variable_length |-> var, empty_value |-> <<>>, parser |-> p]

EURING_FIELDS ==
  <<
    FieldDef("ringing_scheme", TYPE_ALPHABETIC, 3, TRUE, FALSE, ""),
    FieldDef("primary_identification_method", TYPE_ALPHANUMERIC, 2, TRUE, FALSE, ""),
    FieldDef("identification_number", TYPE_ALPHANUMERIC, 10, TRUE, FALSE, ""),
    FieldDef("verification_of_the_metal_ring", TYPE_INTEGER, 1, TRUE, FALSE, ""),
    FieldDef("metal_ring_information", TYPE_INTEGER, 1, TRUE, FALSE, ""),
    FieldDef("other_marks_information", TYPE_ALPHABETIC, 2, TRUE, FALSE, ""),
    FieldDef("species_mentioned", TYPE_INTEGER, 5, TRUE, FALSE, ""),
    FieldDef("species_concluded", TYPE_INTEGER, 5, TRUE, FALSE, ""),
    FieldDef("manipulated", TYPE_ALPHABETIC, 1, TRUE, FALSE, ""),
    FieldDef("moved_before_recovery", TYPE_INTEGER, 1, TRUE, FALSE, ""),
    FieldDef("catching_method", TYPE_ALPHABETIC, 1, TRUE, FALSE, ""),
    FieldDef("catching_lures", TYPE_ALPHABETIC, 1, TRUE, FALSE, ""),
    FieldDef("sex_mentioned", TYPE_ALPHABETIC, 1, TRUE, FALSE, ""),
    FieldDef("sex_concluded", TYPE_ALPHABETIC, 1, TRUE, FALSE, ""),
    FieldDef("age_mentioned", TYPE_ALPHANUMERIC, 1, TRUE, FALSE, ""),
    FieldDef("age_concluded", TYPE_ALPHANUMERIC, 1, TRUE, FALSE, ""),
    FieldDef("status", TYPE_ALPHABETIC, 1, TRUE, FALSE, ""),
    FieldDef("brood_size", TYPE_INTEGER, 2, TRUE, FALSE, ""),
    FieldDef("pullus_age", TYPE_INTEGER, 2, TRUE, FALSE, ""),
    FieldDef("accuracy_of_pullus_age", TYPE_ALPHANUMERIC, 1, TRUE, FALSE, ""),
    FieldDef("date", TYPE_INTEGER, 8, TRUE, FALSE, "parse_date"),
    FieldDef("accuracy_of_date", TYPE_INTEGER, 1, TRUE, FALSE, ""),
    FieldDef("time", TYPE_ALPHANUMERIC, 4, TRUE, FALSE, ""),
    FieldDef("place_code", TYPE_ALPHANUMERIC, 4, TRUE, FALSE, "parse_place_code"),
    FieldDef("geographical_coordinates", TYPE_ALPHANUMERIC, 15, TRUE, FALSE, "parse_geographical_coordinates"),
    FieldDef("accuracy_of_coordinates", TYPE_ALPHANUMERIC, 1, TRUE, FALSE, ""),
    FieldDef("condition", TYPE_INTEGER, 1, TRUE, FALSE, ""),
    FieldDef("circumstances", TYPE_INTEGER, 2, TRUE, FALSE, ""),
    FieldDef("circumstances_presumed", TYPE_INTEGER, 1, TRUE, FALSE, ""),
    FieldDef("euring_code_identifier", TYPE_INTEGER, 1, TRUE, FALSE, ""),
    FieldDef("distance", TYPE_INTEGER, 5, FALSE, TRUE, ""),
    FieldDef("direction", TYPE_INTEGER, 3, FALSE, FALSE, "parse_direction"),
    FieldDef("elapsed_time", TYPE_INTEGER, 5, FALSE, TRUE, ""),
    FieldDef("wing_length", TYPE_NUMERIC, 0, FALSE, FALSE, ""),
    FieldDef("third_primary", TYPE_NUMERIC, 0, FALSE, FALSE, ""),
    FieldDef("state_of_wing_point", TYPE_ALPHABETIC, 1, FALSE, FALSE, ""),
    FieldDef("mass", TYPE_NUMERIC, 0, FALSE, FALSE, ""),
    FieldDef("moult", TYPE_ALPHABETIC, 1, FALSE, FALSE, ""),
    FieldDef("plumage_code", TYPE_ALPHANUMERIC, 1, FALSE, FALSE, ""),
    FieldDef("hind_claw", TYPE_NUMERIC, 0, FALSE, FALSE, ""),
    FieldDef("bill_length", TYPE_NUMERIC, 0, FALSE, FALSE, ""),
    FieldDef("bill_method", TYPE_ALPHABETIC, 1, FALSE, FALSE, ""),
    FieldDef("total_head_length", TYPE_NUMERIC, 0, FALSE, FALSE, ""),
    FieldDef("tarsus", TYPE_NUMERIC, 0, FALSE, FALSE, ""),
    FieldDef("tarsus_method", TYPE_ALPHABETIC, 1, FALSE, FALSE, ""),
    FieldDef("tail_length", TYPE_NUMERIC, 0, FALSE, FALSE, ""),
    FieldDef("tail_difference", TYPE_NUMERIC_SIGNED, 0, FALSE, FALSE, ""),
    FieldDef("fat_score", TYPE_INTEGER, 1, FALSE, FALSE, ""),
    FieldDef("fat_score_method", TYPE_ALPHABETIC, 1, FALSE, FALSE, ""),
    FieldDef("pectoral_muscle", TYPE_INTEGER, 1, FALSE, FALSE, ""),
    FieldDef("brood_patch", TYPE_ALPHANUMERIC, 1, FALSE, FALSE, ""),
    FieldDef("primary_score", TYPE_INTEGER, 2, FALSE, TRUE, ""),
    FieldDef("primary_moult", TYPE_ALPHANUMERIC, 10, FALSE, FALSE, ""),
    FieldDef("old_greater_coverts", TYPE_ALPHANUMERIC, 1, FALSE, FALSE, "parse_old_greater_coverts"),
    FieldDef("alula", TYPE_ALPHANUMERIC, 1, FALSE, FALSE, ""),
    FieldDef("carpal_covert", TYPE_INTEGER, 1, FALSE, FALSE, ""),
    FieldDef("sexing_method", TYPE_ALPHABETIC, 1, FALSE, FALSE, ""),
    FieldDef("place_name", TYPE_TEXT, 0, FALSE, FALSE, ""),
    FieldDef("remarks", TYPE_TEXT, 0, FALSE, FALSE, ""),
    FieldDef("reference", TYPE_TEXT, 0, FALSE, FALSE, ""),
    FieldDef("latitude", TYPE_NUMERIC_SIGNED, 0, FALSE, FALSE, "parse_latitude"),
    FieldDef("longitude", TYPE_NUMERIC_SIGNED, 0, FALSE, FALSE, "parse_longitude"),
    FieldDef("current_place_code", TYPE_ALPHANUMERIC, 4, FALSE, FALSE, "parse_place_code"),
    FieldDef("more_other_marks", TYPE_ALPHABETIC, 0, FALSE, FALSE, "")
  >>

NumFields == Len(EURING_FIELDS)
EURING2020_FIELDS == EURING_FIELDS
EURING2000PLUS_FIELDS == SubSeq(EURING_FIELDS, 1, 60)
EURING2000_FIELDS == SubSeq(EURING_FIELDS, 1, 33)

KeysOf(fields) == {fields[i].key : i \in DOMAIN fields}
EURING2020_KEYS == KeysOf(EURING2020_FIELDS)
EURING2000PLUS_KEYS == KeysOf(EURING2000PLUS_FIELDS)
EURING2000_KEYS == KeysOf(EURING2000_FIELDS)
NON_EURING2000_KEYS == EURING2020_KEYS \ EURING2000_KEYS
EURING2020_ONLY_KEYS == EURING2020_KEYS \ EURING2000PLUS_KEYS

\* _field_index(key), 0-based as in the code
FieldIndex(key) == (CHOOSE i \in DOMAIN EURING_FIELDS : EURING_FIELDS[i].key = key) - 1

(***************************************************************************)
(* Typed values and results.  A value is None, a text, an int, a float or  *)
(* a {lat, lng} pair; every value is a record of the same shape.           *)
(*   float: sign and magnitude in units of 10^-FloatDecimals               *)
(*   lat/lng of a pair: sign and magnitude in 1/UnitsPerDegree degree      *)
(* A result is a returned value or a raised exception with its message.    *)
(***************************************************************************)
NoneV == [t |-> "none", s |-> <<>>, n |-> 0, neg |-> FALSE, lng |-> 0, lngneg |-> FALSE]
StrV(x) == [t |-> "str", s |-> x, n |-> 0, neg |-> FALSE, lng |-> 0, lngneg |-> FALSE]
IntV(k) == [t |-> "int", s |-> <<>>, n |-> k, neg |-> FALSE, lng |-> 0, lngneg |-> FALSE]
FloatV(sgn, m) == [t |-> "float", s |-> <<>>, n |-> m, neg |-> sgn, lng |-> 0, lngneg |-> FALSE]
GeoV(latneg, lat, lngneg, lng) ==
  [t |-> "geo", s |-> <<>>, n |-> lat, neg |-> latneg, lng |-> lng, lngneg |-> lngneg]

\* value in (None, "")
IsEmptyV(v) == v.t = "none" \/ (v.t = "str" /\ v.s = <<>>)

\* the outcome of a call: a returned value, or the exception raised (reasons
\* is the set of loss reasons a conversion error lists)
Ok(v) == [ok |-> TRUE, v |-> v, exc |-> "", msg |-> "", reasons |-> {}]
Raise(e, m) == [ok |-> FALSE, v |-> NoneV, exc |-> e, msg |-> m, reasons |-> {}]

EuringConstraintException == "EuringConstraintException"
EuringTypeException == "EuringTypeException"
ValueError == "ValueError"

MSG_REQUIRED_EMPTY == "Required field, empty value \"\" is not permitted."
MSG_LENGTH == "Value is length n instead of / should be at most length."
MSG_TYPE == "Value is not valid for type."
MSG_COORDINATES == "Value is not a valid set of coordinates."

(***************************************************************************)
(* Numbers.                                                                *)
(***************************************************************************)
FloatDecimals == 4
RECURSIVE Pow10(_)
Pow10(k) == IF k = 0 THEN 1 ELSE 10 * Pow10(k - 1)
FloatScale == Pow10(FloatDecimals)
\* the grid on which decimal degrees are exact: 1/10 arc-second and 10^-4 degree
UnitsPerDegree == 50 * 3600

\* a decimal literal: digits, optionally "." and digits
IsUnsignedDecimal(s) ==
  /\ s # <<>>
  /\ \A i \in DOMAIN s : s[i] \in Digits \cup {"."}
  /\ Cardinality({i \in DOMAIN s : s[i] = "."}) <= 1
  /\ s[1] # "." /\ s[Len(s)] # "."

IsSignedDecimal(s) ==
  \/ IsUnsignedDecimal(s)
  \/ (Len(s) >= 2 /\ s[1] = "-" /\ IsUnsignedDecimal(Tail(s)))

DotPos(s) == IF HasChar(s, ".") THEN CHOOSE i \in DOMAIN s : s[i] = "." ELSE Len(s) + 1

\* the digits after the decimal point
FractionOf(s) == SubSeq(s, DotPos(s) + 1, Len(s))

\* float(text) for an unsigned literal, in units of 10^-FloatDecimals
\* (digits beyond FloatDecimals are cut: the inputs of the model carry none)
MagnitudeOf(s) ==
  LET ip == SubSeq(s, 1, DotPos(s) - 1)
      fp == SubSeq(str_ljust(FractionOf(s), FloatDecimals, "0"), 1, FloatDecimals)
  IN IntOfDigits(ip) * FloatScale + IntOfDigits(fp)

\* float(text) for a signed decimal literal ("-0" is the float -0.0)
FloatOf(s) ==
  IF s[1] = "-" THEN FloatV(TRUE, MagnitudeOf(Tail(s))) ELSE FloatV(FALSE, MagnitudeOf(s))

\* f"{x}" of a float: shortest repr, at least one digit after the point
FloatStr(v) ==
  LET ip == StrOfNat(v.n \div FloatScale)
      fr == str_rstrip(str_zfill(StrOfNat(v.n % FloatScale), FloatDecimals), "0")
      fp == IF fr = <<>> THEN <<"0">> ELSE fr
  IN (IF v.neg THEN <<"-">> ELSE <<>>) \o ip \o <<".">> \o fp

\* f"{value}" of a typed value (a pair is never formatted by the paths modelled)
FormatV(v) ==
  CASE v.t = "str" -> v.s
    [] v.t = "int" -> StrOfNat(v.n)
    [] v.t = "float" -> FloatStr(v)
    [] OTHER -> <<>>

(***************************************************************************)
(* Type predicates of the field types.                                     *)
(***************************************************************************)
AlphanumericChars == UpperLetters \cup Digits \cup {"+", "-", "."}

is_valid_euring_type(raw, type_name) ==
  CASE type_name = TYPE_ALPHABETIC -> \A i \in DOMAIN raw : raw[i] \in UpperLetters
    [] type_name = TYPE_ALPHANUMERIC -> \A i \in DOMAIN raw : raw[i] \in AlphanumericChars
    [] type_name = TYPE_INTEGER -> str_isdigit(raw) \/ is_all_hyphens(raw)
    [] type_name = TYPE_NUMERIC -> IsUnsignedDecimal(raw)
    [] type_name = TYPE_NUMERIC_SIGNED -> IsSignedDecimal(raw)
    [] type_name = TYPE_TEXT -> ~HasChar(raw, "|")
    [] OTHER -> FALSE

\* is_alpha of the format detector
is_alpha(s) == str_isalpha(s)

(***************************************************************************)
(* Coordinate codec.  A decimal coordinate is a sign and a magnitude in    *)
(* 1/UnitsPerDegree degree; the arithmetic is exact.                       *)
(***************************************************************************)
Dec(sgn, u) == [neg |-> sgn, u |-> u]

\* round(x) for x = num / den, ties to even
RoundDiv(num, den) ==
  LET q == num \div den
      r == num % den
  IN IF 2 * r > den THEN q + 1
     ELSE IF 2 * r = den THEN (IF q % 2 = 1 THEN q + 1 ELSE q)
     ELSE q

_validate_euring_coordinate_component(value, degrees_digits, max_degrees) ==
  LET degrees == Slice(value, 1, 1 + degrees_digits)
      minutes == Slice(value, 1 + degrees_digits, 1 + degrees_digits + 2)
      seconds == SliceFrom(value, 1 + degrees_digits + 2)
  IN /\ Len(value) = 1 + degrees_digits + 2 + 2
     /\ value[1] \in {"+", "-"}
     /\ str_isdigit(degrees) /\ str_isdigit(minutes) /\ str_isdigit(seconds)
     /\ ~(IntOfDigits(degrees) > max_degrees
          \/ IntOfDigits(minutes) > 59 \/ IntOfDigits(seconds) > 59)

\* TRUE when the text passes (the code raises otherwise)
_validate_euring_coordinates(value) ==
  /\ Len(value) = 15
  /\ _validate_euring_coordinate_component(Slice(value, 0, 7), 2, 90)
  /\ _validate_euring_coordinate_component(SliceFrom(value, 7), 3, 180)

\* for a validated component: float(degrees) keeps the sign only of a
\* non-zero degree value, since "negative" is decided by result < 0
_euring_coordinate_to_decimal(value) ==
  LET n == Len(value)
      seconds == IntOfDigits(SubSeq(value, n - 1, n))
      minutes == IntOfDigits(SubSeq(value, n - 3, n - 2))
      degrees == IntOfDigits(SubSeq(value, 2, n - 4))
      negative == value[1] = "-" /\ degrees > 0
  IN Dec(negative, (degrees * 3600 + minutes * 60 + seconds) * (UnitsPerDegree \div 3600))

euring_coordinates_to_lat_lng(value) ==
  LET lat == _euring_coordinate_to_decimal(Slice(value, 0, 7))
      lng == _euring_coordinate_to_decimal(SliceFrom(value, 7))
  IN GeoV(lat.neg, lat.u, lng.neg, lng.u)

\* degrees is signed; quadrant is decided by int(value) before the carry
_decimal_to_euring_coordinate_components(value) ==
  LET deg0 == value.u \div UnitsPerDegree
      f == value.u % UnitsPerDegree
      min0 == (f * 60) \div UnitsPerDegree
      r == (f * 60) % UnitsPerDegree
      sec0 == RoundDiv(r * 60, UnitsPerDegree)
      degrees0 == IF value.neg THEN 0 - deg0 ELSE deg0
      quadrant == IF degrees0 < 0 THEN "-" ELSE "+"
      seconds == IF sec0 = 60 THEN 0 ELSE sec0
      min1 == IF sec0 = 60 THEN min0 + 1 ELSE min0
      minutes == IF min1 = 60 THEN 0 ELSE min1
      degrees == IF min1 = 60
                 THEN (IF degrees0 >= 0 THEN degrees0 + 1 ELSE degrees0 - 1)
                 ELSE degrees0
  IN [quadrant |-> quadrant, degrees |-> degrees, minutes |-> minutes, seconds |-> seconds]

_decimal_to_euring_coordinate(value, degrees_pos) ==
  LET parts == _decimal_to_euring_coordinate_components(value)
      absdeg == IF parts.degrees < 0 THEN 0 - parts.degrees ELSE parts.degrees
  IN <<parts.quadrant>> \o str_zfill(StrOfNat(absdeg), degrees_pos)
       \o str_zfill(StrOfNat(parts.minutes), 2) \o str_zfill(StrOfNat(parts.seconds), 2)

_lat_to_euring_coordinate(value) == _decimal_to_euring_coordinate(value, 2)

\* _lng_to_euring_coordinate with the degree width of a latitude
_lng_to_euring_coordinate_two_digits(value) == _decimal_to_euring_coordinate(value, 2)

_lng_to_euring_coordinate(value) == _decimal_to_euring_coordinate(value, 3)

lat_lng_to_euring_coordinates(lat, lng) ==
  _lat_to_euring_coordinate(lat) \o _lng_to_euring_coordinate(lng)

\* the latitude / longitude of a {lat, lng} pair
LatOf(v) == Dec(v.neg, v.n)
LngOf(v) == Dec(v.lngneg, v.lng)

\* a float of the field values as a decimal coordinate
DecOfFloat(v) == Dec(v.neg, v.n * (UnitsPerDegree \div FloatScale))

\* euring_lat_to_dms / euring_lng_to_dms of the converter
euring_lat_to_dms(value) == _lat_to_euring_coordinate(value)
euring_lng_to_dms(value) == _lng_to_euring_coordinate(value)

(***************************************************************************)
(* Parser hooks of the field table.                                        *)
(***************************************************************************)
parse_geographical_coordinates(value) ==
  IF value = Rep(".", 15) THEN Ok(NoneV)
  ELSE IF _validate_euring_coordinates(value) THEN Ok(euring_coordinates_to_lat_lng(value))
  ELSE Raise(EuringConstraintException, MSG_COORDINATES)

\* max_abs in degrees; the text has passed the NumericSigned type check
_parse_decimal_coordinate(value, max_abs, max_decimals) ==
  LET parsed == FloatOf(value)
  IN IF parsed.n > max_abs * FloatScale
     THEN Raise(EuringConstraintException, "must be between -max and max")
     ELSE IF HasChar(value, ".") /\ Len(FractionOf(value)) > max_decimals
     THEN Raise(EuringConstraintException, "must have at most 4 decimal places")
     ELSE Ok(parsed)

parse_latitude(value) == _parse_decimal_coordinate(value, 90, 4)
parse_longitude(value) == _parse_decimal_coordinate(value, 180, 4)

\* the text has passed the Integer type check (digits, or hyphens only)
parse_direction(value) ==
  IF is_all_hyphens(value) THEN Ok(NoneV)
  ELSE IF IntOfDigits(value) > 359
  THEN Raise(EuringConstraintException, "Direction must be between 0 and 359 degrees.")
  ELSE Ok(IntV(IntOfDigits(value)))

\* ^[A-Z]{2}([A-Z]{2}|[0-9]{2}|--)$
parse_place_code(value) ==
  IF /\ Len(value) = 4
     /\ value[1] \in UpperLetters /\ value[2] \in UpperLetters
     /\ \/ (value[3] \in UpperLetters /\ value[4] \in UpperLetters)
        \/ (value[3] \in Digits /\ value[4] \in Digits)
        \/ (value[3] = "-" /\ value[4] = "-")
  THEN Ok(StrV(value))
  ELSE Raise(EuringConstraintException, "not a valid place code format")

parse_date(value) ==
  IF is_all_hyphens(value)
  THEN Raise(EuringConstraintException, "Date cannot be all dashes")
  ELSE Ok(StrV(value))

parse_old_greater_coverts(value) ==
  IF Len(value) = 1 /\ value[1] \in Digits \cup {"A"}
  THEN Ok(StrV(value))
  ELSE Raise(EuringConstraintException, "not a valid Old Greater Coverts code")

ApplyParser(parser, value) ==
  CASE parser = "parse_geographical_coordinates" -> parse_geographical_coordinates(value)
    [] parser = "parse_latitude" -> parse_latitude(value)
    [] parser = "parse_longitude" -> parse_longitude(value)
    [] parser = "parse_direction" -> parse_direction(value)
    [] parser = "parse_place_code" -> parse_place_code(value)
    [] parser = "parse_date" -> parse_date(value)
    [] parser = "parse_old_greater_coverts" -> parse_old_greater_coverts(value)
    [] OTHER -> Ok(StrV(value))

(***************************************************************************)
(* Field schema: EuringField / EuringFormattedField.  A field object is    *)
(* the field-definition record itself (coerce_field copies the attributes).*)
(***************************************************************************)
coerce_field(definition) == definition

\* TRUE when the length check passes
_validate_length(f, raw, ignore_variable_length) ==
  IF f.length = 0 THEN TRUE
  ELSE IF f.variable_length /\ ~ignore_variable_length
       THEN ~(Len(raw) > f.length)
       ELSE Len(raw) = f.length

\* the validated text, None for an empty optional value, or the error
_validate_raw(f, raw) ==
  IF raw = <<>>
  THEN (IF ~f.required THEN Ok(NoneV)
        ELSE Raise(EuringConstraintException, MSG_REQUIRED_EMPTY))
  ELSE IF ~_validate_length(f, raw, FALSE)
  THEN Raise(EuringConstraintException, MSG_LENGTH)
  ELSE IF f.type_name # "" /\ ~is_valid_euring_type(raw, f.type_name)
  THEN Raise(EuringTypeException, MSG_TYPE)
  ELSE Ok(StrV(raw))

\* a coercion that reads the hyphen placeholder as the number zero
_coerce_type_zero(f, raw) ==
  CASE f.type_name = TYPE_INTEGER ->
         IF is_all_hyphens(raw) THEN IntV(0) ELSE IntV(IntOfDigits(raw))
    [] f.type_name \in {TYPE_NUMERIC, TYPE_NUMERIC_SIGNED} -> FloatOf(raw)
    [] OTHER -> StrV(raw)

_coerce_type(f, raw) ==
  CASE f.type_name = TYPE_INTEGER ->
         IF is_all_hyphens(raw) THEN NoneV ELSE IntV(IntOfDigits(raw))
    [] f.type_name \in {TYPE_NUMERIC, TYPE_NUMERIC_SIGNED} -> FloatOf(raw)
    [] OTHER -> StrV(raw)

\* no field of the table configures a value_type
_coerce_value_type(f, raw) == _coerce_type(f, raw)

\* EuringField.parse, and EuringFormattedField.parse for a field with a parser
parse(f, raw) ==
  LET Parsed(validated) ==
        IF ~validated.ok THEN validated
        ELSE IF validated.v.t = "none" THEN Ok(NoneV)
        ELSE IF f.parser = "" THEN Ok(_coerce_value_type(f, raw))
        ELSE ApplyParser(f.parser, raw)
  IN Parsed(_validate_raw(f, raw))

\* the trailing-zero stripping of numeric text: rstrip("0").rstrip(".")
StripNumeric(str_value) == str_rstrip(str_rstrip(str_value, "0"), ".")

\* EuringField.encode
encode(f, value) ==
  LET Checked(str_value) ==
        IF ~_validate_length(f, str_value, FALSE)
        THEN Raise(EuringConstraintException, MSG_LENGTH)
        ELSE IF f.type_name # "" /\ ~is_valid_euring_type(str_value, f.type_name)
        THEN Raise(EuringTypeException, MSG_TYPE)
        ELSE Ok(StrV(str_value))
      Filled(str_value) ==
        Checked(IF /\ f.type_name \in {TYPE_INTEGER, TYPE_NUMERIC, TYPE_NUMERIC_SIGNED}
                   /\ f.length # 0 /\ ~f.variable_length
                THEN str_zfill(str_value, f.length) ELSE str_value)
      Stripped(str_value) ==
        Filled(IF f.type_name \in {TYPE_NUMERIC, TYPE_NUMERIC_SIGNED}
               THEN StripNumeric(str_value) ELSE str_value)
  IN IF IsEmptyV(value)
     THEN (IF f.required THEN Raise(EuringConstraintException, MSG_REQUIRED_EMPTY)
           ELSE Ok(StrV(<<>>)))
     ELSE IF f.key = "geographical_coordinates" /\ value.t = "geo"
     THEN Ok(StrV(lat_lng_to_euring_coordinates(LatOf(value), LngOf(value))))
     ELSE Stripped(FormatV(value))

\* encode_for_format giving an absent value hyphens for required fields only
encode_for_format_required_only(f, value, format) ==
  IF f.empty_value # <<>> THEN Ok(StrV(f.empty_value))
  ELSE IF f.length # 0 /\ f.required THEN Ok(StrV(Rep("-", f.length)))
  ELSE Ok(StrV(<<>>))

RECURSIVE encode_for_format(_, _, _)
encode_for_format(f, value, format) ==
  LET ignore_variable_length == format = FORMAT_EURING2000
      Checked(str_value) ==
        IF ~_validate_length(f, str_value, ignore_variable_length)
        THEN Raise(EuringConstraintException, MSG_LENGTH)
        ELSE IF f.type_name # "" /\ ~is_valid_euring_type(str_value, f.type_name)
        THEN Raise(EuringTypeException, MSG_TYPE)
        ELSE Ok(StrV(str_value))
      Unpadded(stripped) == IF stripped = <<>> THEN <<"0">> ELSE stripped
      Shortened(str_value) ==
        Checked(IF f.variable_length /\ ~ignore_variable_length
                THEN Unpadded(str_lstrip(str_value, "0")) ELSE str_value)
      Filled(str_value) ==
        Shortened(IF /\ f.type_name \in {TYPE_INTEGER, TYPE_NUMERIC, TYPE_NUMERIC_SIGNED}
                     /\ f.length # 0
                  THEN str_zfill(str_value, f.length) ELSE str_value)
      Stripped(str_value) ==
        Filled(IF f.type_name \in {TYPE_NUMERIC, TYPE_NUMERIC_SIGNED}
               THEN StripNumeric(str_value) ELSE str_value)
  IN IF IsEmptyV(value)
     THEN (IF f.empty_value # <<>> THEN Ok(StrV(f.empty_value))
           ELSE IF f.length # 0 /\ format = FORMAT_EURING2000 THEN Ok(StrV(Rep("-", f.length)))
           ELSE IF f.length # 0 /\ f.required /\ f.type_name = TYPE_INTEGER
           THEN Ok(StrV(Rep("-", f.length)))
           ELSE Ok(StrV(<<>>)))
     ELSE IF f.key = "geographical_coordinates" /\ value.t = "geo"
     THEN Ok(StrV(lat_lng_to_euring_coordinates(LatOf(value), LngOf(value))))
     ELSE IF f.type_name = TYPE_INTEGER /\ value.t = "str" /\ is_all_hyphens(value.s)
     THEN encode_for_format(f, NoneV, format)
     ELSE Stripped(FormatV(value))

(***************************************************************************)
(* Rule engine.  values_by_key is a function from a set of keys to text;   *)
(* Get is dict.get(key, "").                                               *)
(***************************************************************************)
Get(values_by_key, key) ==
  IF key \in DOMAIN values_by_key THEN values_by_key[key] ELSE <<>>

MSG_GEO_DOTS == "When Latitude/Longitude are provided, Geographical Co-ordinates must be 15 dots."
MSG_LNG_REQUIRED == "Longitude is required when Latitude is provided."
MSG_LAT_REQUIRED == "Latitude is required when Longitude is provided."
MSG_ALPHA_ACCURACY == "Alphabetic accuracy codes are only valid in EURING2020."
MSG_BEYOND_2000 == "Fields beyond the EURING2000 fixed-width layout are not allowed."
MSG_2020_ONLY == "EURING2020-only fields require EURING2020 format."

\* an entry of errors["fields"]
FieldError(key, message, value) ==
  [key |-> key, message |-> message, value |-> value, index |-> FieldIndex(key)]

\* accuracy_of_coordinates_is_alpha reading the accuracy of the date
accuracy_of_coordinates_is_alpha_wrong_key(values_by_key) ==
  LET accuracy_of_coordinates == Get(values_by_key, "accuracy_of_date")
  IN accuracy_of_coordinates # <<>> /\ str_isalpha(accuracy_of_coordinates)

accuracy_of_coordinates_is_alpha(values_by_key) ==
  LET accuracy_of_coordinates == Get(values_by_key, "accuracy_of_coordinates")
  IN accuracy_of_coordinates # <<>> /\ str_isalpha(accuracy_of_coordinates)

matches_euring2000(values_by_key) ==
  \A key \in NON_EURING2000_KEYS : Get(values_by_key, key) = <<>>

\* requires_euring2020 looking at the EURING2020-only fields alone
requires_euring2020_fields_only(values_by_key) ==
  \E key \in EURING2020_ONLY_KEYS : Get(values_by_key, key) # <<>>

requires_euring2020(values_by_key) ==
  \/ accuracy_of_coordinates_is_alpha(values_by_key)
  \/ \E key \in EURING2020_ONLY_KEYS : Get(values_by_key, key) # <<>>

\* the errors for the keys of `keys` (a sequence, in table order) with a value
ErrorsForNonEmpty(values_by_key, keys, message) ==
  LET present == SelectSeq(keys, LAMBDA key : Get(values_by_key, key) # <<>>)
  IN [i \in 1..Len(present) |->
        FieldError(present[i], message, Get(values_by_key, present[i]))]

KeySeq(from, to) == [i \in 1..(to - from + 1) |-> EURING_FIELDS[from + i - 1].key]

\* record_rule_errors without the rules for a missing latitude or longitude
record_rule_errors_no_partner_rule(format, values_by_key) ==
  LET geographical_coordinates == Get(values_by_key, "geographical_coordinates")
      latitude == Get(values_by_key, "latitude")
      longitude == Get(values_by_key, "longitude")
  IN IF format = FORMAT_EURING2020
     THEN (IF /\ (latitude # <<>> \/ longitude # <<>>)
              /\ geographical_coordinates # <<>>
              /\ geographical_coordinates # Rep(".", 15)
           THEN <<FieldError("geographical_coordinates", MSG_GEO_DOTS, geographical_coordinates)>>
           ELSE <<>>)
     ELSE (IF accuracy_of_coordinates_is_alpha(values_by_key)
           THEN <<FieldError("accuracy_of_coordinates", MSG_ALPHA_ACCURACY,
                             Get(values_by_key, "accuracy_of_coordinates"))>>
           ELSE <<>>)
          \o (IF format = FORMAT_EURING2000
              THEN ErrorsForNonEmpty(values_by_key, KeySeq(34, 64), MSG_BEYOND_2000)
              ELSE <<>>)
          \o (IF format = FORMAT_EURING2000PLUS
              THEN ErrorsForNonEmpty(values_by_key, KeySeq(61, 64), MSG_2020_ONLY)
              ELSE <<>>)

\* record_rule_errors comparing with a placeholder of 14 dots
record_rule_errors_short_placeholder(format, values_by_key) ==
  LET geographical_coordinates == Get(values_by_key, "geographical_coordinates")
      latitude == Get(values_by_key, "latitude")
      longitude == Get(values_by_key, "longitude")
  IN IF format = FORMAT_EURING2020
     THEN (IF /\ (latitude # <<>> \/ longitude # <<>>)
              /\ geographical_coordinates # <<>>
              /\ geographical_coordinates # Rep(".", 14)
           THEN <<FieldError("geographical_coordinates", MSG_GEO_DOTS, geographical_coordinates)>>
           ELSE <<>>)
          \o (IF latitude # <<>> /\ longitude = <<>>
              THEN <<FieldError("longitude", MSG_LNG_REQUIRED, longitude)>> ELSE <<>>)
          \o (IF longitude # <<>> /\ latitude = <<>>
              THEN <<FieldError("latitude", MSG_LAT_REQUIRED, latitude)>> ELSE <<>>)
     ELSE (IF accuracy_of_coordinates_is_alpha(values_by_key)
           THEN <<FieldError("accuracy_of_coordinates", MSG_ALPHA_ACCURACY,
                             Get(values_by_key, "accuracy_of_coordinates"))>>
           ELSE <<>>)
          \o (IF format = FORMAT_EURING2000
              THEN ErrorsForNonEmpty(values_by_key, KeySeq(34, 64), MSG_BEYOND_2000)
              ELSE <<>>)
          \o (IF format = FORMAT_EURING2000PLUS
              THEN ErrorsForNonEmpty(values_by_key, KeySeq(61, 64), MSG_2020_ONLY)
              ELSE <<>>)

record_rule_errors(format, values_by_key) ==
  LET geographical_coordinates == Get(values_by_key, "geographical_coordinates")
      latitude == Get(values_by_key, "latitude")
      longitude == Get(values_by_key, "longitude")
  IN IF format = FORMAT_EURING2020
     THEN (IF /\ (latitude # <<>> \/ longitude # <<>>)
              /\ geographical_coordinates # <<>>
              /\ geographical_coordinates # Rep(".", 15)
           THEN <<FieldError("geographical_coordinates", MSG_GEO_DOTS, geographical_coordinates)>>
           ELSE <<>>)
          \o (IF latitude # <<>> /\ longitude = <<>>
              THEN <<FieldError("longitude", MSG_LNG_REQUIRED, longitude)>> ELSE <<>>)
          \o (IF longitude # <<>> /\ latitude = <<>>
              THEN <<FieldError("latitude", MSG_LAT_REQUIRED, latitude)>> ELSE <<>>)
     ELSE (IF accuracy_of_coordinates_is_alpha(values_by_key)
           THEN <<FieldError("accuracy_of_coordinates", MSG_ALPHA_ACCURACY,
                             Get(values_by_key, "accuracy_of_coordinates"))>>
           ELSE <<>>)
          \o (IF format = FORMAT_EURING2000
              THEN ErrorsForNonEmpty(values_by_key, KeySeq(34, 64), MSG_BEYOND_2000)
              ELSE <<>>)
          \o (IF format = FORMAT_EURING2000PLUS
              THEN ErrorsForNonEmpty(values_by_key, KeySeq(61, 64), MSG_2020_ONLY)
              ELSE <<>>)

(***************************************************************************)
(* Record: field serialisation.                                            *)
(***************************************************************************)
_fields_for_format(format) ==
  CASE format = FORMAT_EURING2000 -> EURING2000_FIELDS
    [] format = FORMAT_EURING2000PLUS -> EURING2000PLUS_FIELDS
    [] OTHER -> EURING2020_FIELDS

RecordLength == 94

\* number of leading EURING2000 fields inside the fixed layout
RECURSIVE FixedCount(_, _)
FixedCount(i, start) ==
  IF i > Len(EURING2000_FIELDS) \/ start >= RecordLength \/ EURING2000_FIELDS[i].length = 0
  THEN i - 1
  ELSE FixedCount(i + 1, start + EURING2000_FIELDS[i].length)

_fixed_width_fields == SubSeq(EURING2000_FIELDS, 1, FixedCount(1, 0))

\* 0-based start offset of the i-th (1-based) field of a field list
RECURSIVE StartOf(_, _)
StartOf(fields, i) == IF i <= 1 THEN 0 ELSE StartOf(fields, i - 1) + fields[i - 1].length

_is_empty(value) == IsEmptyV(value)

_hyphens(length) == Rep("-", length)

\* values_by_key maps each key of `fields` to text
_format_fixed_width(values_by_key, fields) ==
  LET Fitted(value, length) ==
        IF value = <<>> THEN Rep("-", length)
        ELSE Slice(str_ljust(value, length, "-"), 0, length)
  IN str_concat([i \in 1..Len(fields) |->
                   Fitted(Get(values_by_key, fields[i].key), fields[i].length)])

RECURSIVE _serialize_field_value(_, _, _)
_serialize_field_value(field, value, format) ==
  LET length == field.length
      type_name == field.type_name
      pad_integer == /\ type_name = TYPE_INTEGER /\ length # 0
                     /\ (format = FORMAT_EURING2000 \/ ~field.variable_length)
      pad_numeric == /\ type_name \in {TYPE_NUMERIC, TYPE_NUMERIC_SIGNED} /\ length # 0
                     /\ format = FORMAT_EURING2000
      field_obj == coerce_field(
        [field EXCEPT !.variable_length =
           IF pad_integer \/ pad_numeric THEN TRUE
           ELSE IF format = FORMAT_EURING2000 THEN FALSE
           ELSE field.variable_length])
      Unpointed(value_str) ==
        IF HasChar(value_str, ".") THEN StripNumeric(value_str) ELSE value_str
      Padded(value_str, pad) == IF pad THEN str_zfill(value_str, length) ELSE value_str
      Finished(encoded) ==
        IF ~encoded.ok THEN encoded
        ELSE IF type_name \in {TYPE_NUMERIC, TYPE_NUMERIC_SIGNED}
        THEN Ok(StrV(Padded(Unpointed(encoded.v.s), pad_numeric)))
        ELSE IF type_name = TYPE_INTEGER
        THEN Ok(StrV(Padded(encoded.v.s, pad_integer)))
        ELSE encoded
  IN IF _is_empty(value)
     THEN (IF field.empty_value # <<>> THEN Ok(StrV(field.empty_value))
           ELSE IF length # 0 /\ format = FORMAT_EURING2000 THEN Ok(StrV(_hyphens(length)))
           ELSE IF length # 0 /\ field.required /\ field.type_name = TYPE_INTEGER
           THEN Ok(StrV(_hyphens(length)))
           ELSE Ok(StrV(<<>>)))
     ELSE IF field.key = "geographical_coordinates" /\ value.t = "geo"
     THEN Ok(StrV(euring_lat_to_dms(LatOf(value)) \o euring_lng_to_dms(LngOf(value))))
     ELSE IF type_name = TYPE_INTEGER /\ value.t = "str" /\ is_all_hyphens(value.s)
     THEN _serialize_field_value(field, NoneV, format)
     ELSE Finished(encode(field_obj, value))

(***************************************************************************)
(* Record: state, set, validate.  A record is its format, its strict flag, *)
(* one slot per key of the field table, and its errors.                    *)
(***************************************************************************)
AbsentSlot == [present |-> FALSE, has_raw |-> FALSE, raw_value |-> <<>>, value |-> NoneV]

NoErrors == [record |-> <<>>, fields |-> <<>>]

\* EuringRecord(format, strict=...)
NewRecord(format, strict) ==
  [format |-> format, strict |-> strict,
   fields |-> [key \in EURING2020_KEYS |-> AbsentSlot], errors |-> NoErrors]

\* EuringRecord.set replacing the whole field map by the one slot
set_dropping_others(record, key, value) ==
  [record EXCEPT !.fields =
     [k \in EURING2020_KEYS |->
        IF k = key
        THEN [present |-> TRUE, has_raw |-> FALSE, raw_value |-> <<>>, value |-> value]
        ELSE AbsentSlot]]

\* EuringRecord.set for a key of the field table
set(record, key, value) ==
  [record EXCEPT !.fields[key] =
     [present |-> TRUE, has_raw |-> FALSE, raw_value |-> <<>>, value |-> value]]

\* the text is kept both as raw_value and as value
_set_raw_value(record, key, value) ==
  IF key \notin EURING2020_KEYS THEN record
  ELSE [record EXCEPT !.fields[key] =
          [present |-> TRUE, has_raw |-> TRUE, raw_value |-> value, value |-> StrV(value)]]

\* field_state.get("value", default) of a slot
SlotValue(slot, default) == IF slot.present THEN slot.value ELSE default


NeedsGeoDots(record) ==
  /\ record.format = FORMAT_EURING2020
  /\ \/ ~IsEmptyV(SlotValue(record.fields["latitude"], NoneV))
     \/ ~IsEmptyV(SlotValue(record.fields["longitude"], NoneV))

\* the field definition of the loops of _validate_fields and _serialize
FixedLengthIn2000(field, format) ==
  IF format = FORMAT_EURING2000 /\ field.variable_length
  THEN [field EXCEPT !.variable_length = FALSE] ELSE field

\* one iteration of the loop of _validate_fields: the parsed value or the error
ValidateField(record, field, needs_geo_dots) ==
  LET value == SlotValue(record.fields[field.key], StrV(<<>>))
      had_empty_value == IsEmptyV(value)
      field_obj == coerce_field(FixedLengthIn2000(field, record.format))
      Described(parsed, raw_value) ==
        IF ~parsed.ok THEN parsed
        ELSE IF had_empty_value /\ raw_value # <<>> THEN Ok(NoneV)
        ELSE parsed
      Parsed(raw_value) == Described(parse(field_obj, raw_value), raw_value)
      Serialized(serialized) ==
        IF ~serialized.ok THEN serialized
        ELSE Parsed(IF /\ field.key = "geographical_coordinates"
                       /\ had_empty_value /\ needs_geo_dots
                    THEN Rep(".", 15) ELSE serialized.v.s)
  IN Serialized(_serialize_field_value(field, value, record.format))

\* the record after _validate_fields, and the errors it returns
_validate_fields(record) ==
  LET Payload(fields, result, i) ==
        [key |-> fields[i].key, message |-> result[i].msg,
         value |-> FormatV(SlotValue(record.fields[fields[i].key], StrV(<<>>))),
         index |-> i - 1]
      Errors(fields, result, failed) ==
        [n \in 1..Len(failed) |-> Payload(fields, result, failed[n])]
      Updated(n, result, key, i) ==
        IF i <= n /\ record.fields[key].present /\ result[i].ok
        THEN [record.fields[key] EXCEPT !.value = result[i].v]
        ELSE record.fields[key]
      Collected(fields, result) ==
        [record |-> [record EXCEPT !.fields =
                       [key \in EURING2020_KEYS |->
                          Updated(Len(fields), result, key, FieldIndex(key) + 1)]],
         errors |-> Errors(fields, result,
                           SelectSeq([i \in 1..Len(fields) |-> i], LAMBDA i : ~result[i].ok))]
      Looped(fields, needs_geo_dots) ==
        Collected(fields, [i \in 1..Len(fields) |->
                             ValidateField(record, fields[i], needs_geo_dots)])
  IN Looped(_fields_for_format(record.format), NeedsGeoDots(record))

\* the values handed to the rule engine
RuleValues(record) ==
  LET Text(slot, serialized) ==
        IF slot.has_raw THEN slot.raw_value
        ELSE IF serialized.ok THEN serialized.v.s ELSE <<>>
      Value(slot, field) ==
        Text(slot, _serialize_field_value(field, SlotValue(slot, StrV(<<>>)), record.format))
      Filled(collected) ==
        IF /\ record.format = FORMAT_EURING2020
           /\ (collected["latitude"] # <<>> \/ collected["longitude"] # <<>>)
           /\ collected["geographical_coordinates"] = <<>>
        THEN [collected EXCEPT !["geographical_coordinates"] = Rep(".", 15)]
        ELSE collected
      Collected(fields) ==
        Filled([key \in {fields[i].key : i \in 1..Len(fields)} |->
                  Value(record.fields[key], fields[FieldIndex(key) + 1])])
  IN Collected(_fields_for_format(record.format))

_record_error_for_key(key, message, value) == FieldError(key, message, value)

_validate_record_rules(record) == record_rule_errors(record.format, RuleValues(record))

\* EuringRecord.validate: the record with its values parsed and its errors set
validate(record) ==
  LET Checked(checked) ==
        [checked.record EXCEPT !.errors =
           [record |-> <<>>,
            fields |-> checked.errors \o _validate_record_rules(checked.record)]]
  IN Checked(_validate_fields(record))

has_errors(errors) == errors.record # <<>> \/ errors.fields # <<>>

_has_non_optional_errors(errors) ==
  \/ errors.record # <<>>
  \/ \E i \in DOMAIN errors.fields : errors.fields[i].message # MSG_REQUIRED_EMPTY

(***************************************************************************)
(* Record: decode and serialize.                                           *)
(***************************************************************************)
MSG_FIXED_CONFLICT == "Format conflicts with fixed-width EURING2000 data."
MSG_BEYOND_94 == "invalid EURING2000 code beyond position 94"
MSG_PIPE_CONFLICT == "Format conflicts with pipe-delimited data."
MSG_VALIDATION_FAILED == "Record validation failed"
MSG_FORMAT_MISMATCH == "Record format differs. Use that format or json."
MSG_UNKNOWN_KEY == "Unknown field key."
\* the message of the decoder module for a EURING2000 text of another length
MSG_EXACT_LENGTH == "Format should be exactly 94 characters."

\* format is a format of FORMAT_VALUES, or NoFormat for None
_normalize_decode_format(format) == format

\* the text is a str: the resolved format, the raw values, the record errors
_decode_raw_record(value, format) ==
  LET normalized == _normalize_decode_format(format)
      Chunk(fixed, i) == Slice(value, StartOf(fixed, i), StartOf(fixed, i) + fixed[i].length)
      Fixed(fixed) ==
        [format |-> FORMAT_EURING2000,
         values_by_key |->
           [key \in {fixed[i].key : i \in 1..Len(fixed)} |-> Chunk(fixed, FieldIndex(key) + 1)],
         record_errors |->
           (IF normalized # NoFormat /\ normalized # FORMAT_EURING2000
            THEN <<MSG_FIXED_CONFLICT>> ELSE <<>>)
           \o (IF str_strip(SliceFrom(value, StartOf(fixed, Len(fixed) + 1))) # <<>>
               THEN <<MSG_BEYOND_94>> ELSE <<>>)]
      current_format == IF normalized # NoFormat THEN normalized ELSE FORMAT_EURING2000PLUS
      Piped(values_by_key) ==
        [format |-> IF normalized = NoFormat /\ requires_euring2020(values_by_key)
                    THEN FORMAT_EURING2020 ELSE current_format,
         values_by_key |-> values_by_key,
         record_errors |-> IF normalized = FORMAT_EURING2000
                           THEN <<MSG_PIPE_CONFLICT>> ELSE <<>>]
      Split(fields) ==
        IF Len(fields) <= 1 THEN Fixed(_fixed_width_fields)
        ELSE Piped([key \in {EURING2020_FIELDS[i].key :
                               i \in 1..Min(Len(fields), Len(EURING2020_FIELDS))}
                      |-> fields[FieldIndex(key) + 1]])
  IN Split(str_split(value))

\* the record with every decoded key set from its raw text
RawRecord(format, values_by_key) ==
  [NewRecord(format, FALSE) EXCEPT !.fields = [key \in EURING2020_KEYS |->
     IF key \in DOMAIN values_by_key
     THEN _set_raw_value(NewRecord(format, FALSE), key, values_by_key[key]).fields[key]
     ELSE AbsentSlot]]

\* EuringRecord.decode
decode(value, format) ==
  LET Merged(record, record_errors) ==
        IF record_errors # <<>>
        THEN [record EXCEPT !.errors.record = record_errors \o record.errors.record]
        ELSE record
      Validated(raw) ==
        Merged(validate(RawRecord(raw.format, raw.values_by_key)), raw.record_errors)
  IN Validated(_decode_raw_record(value, format))

\* one iteration of the loop of _serialize: the text of a field, or the error
SerializeField(record, field, geo_placeholder) ==
  LET value == SlotValue(record.fields[field.key], NoneV)
      field_obj == coerce_field(FixedLengthIn2000(field, record.format))
      Encoded(raw_value) ==
        IF ~raw_value.ok THEN raw_value
        ELSE IF raw_value.v.s = <<>> THEN raw_value
        ELSE encode(field_obj, raw_value.v)
  IN IF field.key = "geographical_coordinates" /\ _is_empty(value) /\ geo_placeholder
     THEN Ok(StrV(Rep(".", 15)))
     ELSE Encoded(_serialize_field_value(field, value, record.format))

\* EuringRecord._serialize: the text, or the first exception of the loop
_serialize(record) ==
  LET Text(fields, part) == [i \in 1..Len(fields) |-> part[i].v.s]
      Joined(fields, part, failed) ==
        IF failed # <<>> THEN part[failed[1]]
        ELSE IF record.format = FORMAT_EURING2000
        THEN Ok(StrV(_format_fixed_width(
                       [key \in {fields[i].key : i \in 1..Len(fields)} |->
                          part[FieldIndex(key) + 1].v.s],
                       _fixed_width_fields)))
        ELSE Ok(StrV(str_join(<<"|">>, Text(fields, part))))
      Parts(fields, part) ==
        Joined(fields, part, SelectSeq([i \in 1..Len(fields) |-> i], LAMBDA i : ~part[i].ok))
      Looped(fields, geo_placeholder) ==
        Parts(fields, [i \in 1..Len(fields) |->
                         SerializeField(record, fields[i], geo_placeholder)])
  IN Looped(_fields_for_format(record.format), NeedsGeoDots(record))

\* EuringRecord.serialize(output_format): the record it leaves and its outcome.
\* output_format is a format of FORMAT_VALUES, or NoFormat for None.
serialize(record, output_format) ==
  LET Checked(validated) ==
        IF /\ has_errors(validated.errors)
           /\ (validated.strict \/ _has_non_optional_errors(validated.errors))
        THEN [record |-> validated, result |-> Raise(ValueError, MSG_VALIDATION_FAILED)]
        ELSE [record |-> validated, result |-> _serialize(validated)]
  IN IF output_format # NoFormat /\ output_format # record.format
     THEN [record |-> record, result |-> Raise(ValueError, MSG_FORMAT_MISMATCH)]
     ELSE Checked(validate(record))

(***************************************************************************)
(* Format detection of the decoder module.                                 *)
(***************************************************************************)
\* the token of a key in a token list, "" when the list is too short
euring_value_from_list(values, key) ==
  IF FieldIndex(key) < Len(values) THEN values[FieldIndex(key) + 1] ELSE <<>>

\* euring_detect_format taking a text of as many tokens as EURING2000PLUS has
\* fields for EURING2020
euring_detect_format_at_least(record) ==
  LET Counted(values, num_fields) ==
        IF num_fields >= Len(EURING2000PLUS_FIELDS) THEN FORMAT_EURING2020
        ELSE IF is_alpha(euring_value_from_list(values, "accuracy_of_coordinates"))
        THEN FORMAT_EURING2020
        ELSE FORMAT_EURING2000PLUS
      Split(values) == Counted(values, Len(values))
  IN IF HasChar(record, "|") THEN Split(str_split(record)) ELSE FORMAT_EURING2000

euring_detect_format(record) ==
  LET Counted(values, num_fields) ==
        IF num_fields > Len(EURING2000PLUS_FIELDS) THEN FORMAT_EURING2020
        ELSE IF is_alpha(euring_value_from_list(values, "accuracy_of_coordinates"))
        THEN FORMAT_EURING2020
        ELSE FORMAT_EURING2000PLUS
      Split(values) == Counted(values, Len(values))
  IN IF HasChar(record, "|") THEN Split(str_split(record)) ELSE FORMAT_EURING2000

(***************************************************************************)
(* The decoder module's split of a record text into raw values by key.  A  *)
(* dict is the sequence of its (key, value) items in insertion order.      *)
(***************************************************************************)
IndexError == "IndexError"

MSG_INDEX == "list index out of range"

\* _euring2000_record_to_values slicing every field one character short
_euring2000_record_to_values_short(record) ==
  LET fields == EURING2000_FIELDS
      reached == {i \in DOMAIN fields : StartOf(fields, i) < Len(record)}
  IN [i \in 1..Cardinality(reached) |->
        Slice(record, StartOf(fields, i), StartOf(fields, i) + fields[i].length - 1)]

\* the fixed-width slices, stopping at the end of the text
_euring2000_record_to_values(record) ==
  LET fields == EURING2000_FIELDS
      reached == {i \in DOMAIN fields : StartOf(fields, i) < Len(record)}
  IN [i \in 1..Cardinality(reached) |->
        Slice(record, StartOf(fields, i), StartOf(fields, i) + fields[i].length)]

euring_record_to_values(record, format) ==
  IF format \in {FORMAT_EURING2000PLUS, FORMAT_EURING2020}
  THEN str_split(record)
  ELSE _euring2000_record_to_values(record)

\* a value past the last field of EURING2020_FIELDS raises IndexError
euring_values_to_dict(values) ==
  IF Len(values) > Len(EURING2020_FIELDS)
  THEN Raise(IndexError, MSG_INDEX)
  ELSE Ok([index \in 1..Len(values) |->
             [key |-> EURING2020_FIELDS[index].key, value |-> values[index]]])

euring_record_to_dict(record, format) ==
  euring_values_to_dict(euring_record_to_values(record, format))

(***************************************************************************)
(* Format converter.                                                       *)
(***************************************************************************)
MSG_NOT_FIXED == "Input appears to be pipe-delimited, not fixed-width euring2000."
MSG_TOO_SHORT == "euring2000 record must be 94 characters long."
MSG_EXTRA_DATA == "euring2000 record contains extra data beyond position 94."
MSG_MORE_FIELDS == "Input has more fields than expected for the declared format."
MSG_LOSS == "Conversion would lose data. Use --force to proceed."
MSG_ALPHA_NEEDS_FORCE == "Alphabetic accuracy codes are only valid in euring2020. Use --force to apply lossy mapping."
MSG_UNSUPPORTED_ACCURACY == "Unsupported alphabetic accuracy code."
MSG_FLOAT == "could not convert string to float"

\* a conversion error listing the loss reasons
RaiseLoss(reasons) ==
  [ok |-> FALSE, v |-> NoneV, exc |-> ValueError, msg |-> MSG_LOSS, reasons |-> reasons]

_normalize_target_format(target_format) == target_format

_field_index(key) == FieldIndex(key)

\* source_format is a format of FORMAT_VALUES, or NoFormat for None
_normalize_source_format(source_format, value) ==
  LET reference_index == _field_index("reference")
      accuracy_index == _field_index("accuracy_of_coordinates")
      Detected(accuracy_value, has_2020_fields) ==
        IF (accuracy_value # <<>> /\ str_isalpha(accuracy_value)) \/ has_2020_fields
        THEN FORMAT_EURING2020
        ELSE FORMAT_EURING2000PLUS
      Split(values) ==
        Detected(IF accuracy_index < Len(values) THEN values[accuracy_index + 1] ELSE <<>>,
                 Len(values) > reference_index + 1)
  IN IF source_format = NoFormat
     THEN (IF ~HasChar(value, "|") THEN FORMAT_EURING2000 ELSE Split(str_split(value)))
     ELSE source_format

\* the chunks, or the ValueError
_split_fixed_width(value) ==
  LET Chunk(fixed, i) ==
        str_ljust(Slice(value, StartOf(fixed, i), StartOf(fixed, i) + fixed[i].length),
                  fixed[i].length, " ")
      Chunks(fixed) == [Ok(NoneV) EXCEPT !.v = [i \in 1..Len(fixed) |-> Chunk(fixed, i)]]
  IN IF HasChar(value, "|") THEN Raise(ValueError, MSG_NOT_FIXED)
     ELSE IF Len(value) < RecordLength THEN Raise(ValueError, MSG_TOO_SHORT)
     ELSE IF Len(value) > RecordLength /\ str_strip(SliceFrom(value, RecordLength)) # <<>>
     THEN Raise(ValueError, MSG_EXTRA_DATA)
     ELSE Chunks(_fixed_width_fields)

_split_pipe_delimited(value) == str_split(value)

\* _map_fields_to_values pairing each field with the value after its own
_map_fields_to_values_shifted(fields, values) ==
  [key \in {fields[i].key : i \in 1..Len(fields)} |->
     IF FieldIndex(key) + 1 < Len(values) THEN values[FieldIndex(key) + 2] ELSE <<>>]

_map_fields_to_values(fields, values) ==
  [key \in {fields[i].key : i \in 1..Len(fields)} |->
     IF FieldIndex(key) < Len(values) THEN values[FieldIndex(key) + 1] ELSE <<>>]

\* LossReasons without the reason for an alphabetic accuracy
LossReasons_without_accuracy(values_by_key, target_format) ==
  LET Beyond(fixed_keys) ==
        {"drop " \o key : key \in {k \in DOMAIN values_by_key :
                                     k \notin fixed_keys /\ values_by_key[k] # <<>>}}
  IN (IF target_format \in {FORMAT_EURING2000, FORMAT_EURING2000PLUS}
      THEN {"drop " \o key : key \in {k \in {"latitude", "longitude", "current_place_code",
                                             "more_other_marks"} : Get(values_by_key, k) # <<>>}}
      ELSE {})
     \cup
     (IF target_format = FORMAT_EURING2000
      THEN Beyond(KeysOf(_fixed_width_fields))
      ELSE {})

\* the reasons collected by _require_force_on_loss
LossReasons(values_by_key, target_format) ==
  LET Beyond(fixed_keys) ==
        {"drop " \o key : key \in {k \in DOMAIN values_by_key :
                                     k \notin fixed_keys /\ values_by_key[k] # <<>>}}
  IN (IF target_format \in {FORMAT_EURING2000, FORMAT_EURING2000PLUS}
      THEN {"drop " \o key : key \in {k \in {"latitude", "longitude", "current_place_code",
                                             "more_other_marks"} : Get(values_by_key, k) # <<>>}}
           \cup (IF str_isalpha(Get(values_by_key, "accuracy_of_coordinates"))
                 THEN {"alphabetic coordinate accuracy"} ELSE {})
      ELSE {})
     \cup
     (IF target_format = FORMAT_EURING2000
      THEN Beyond(KeysOf(_fixed_width_fields))
      ELSE {})

\* Ok, or the ValueError naming sorted(set(reasons))
_require_force_on_loss(values_by_key, source_format, target_format, force) ==
  LET Guard(reasons) == IF reasons # {} /\ ~force THEN RaiseLoss(reasons) ELSE Ok(NoneV)
  IN Guard(LossReasons(values_by_key, target_format))

\* _map_alpha_accuracy_to_numeric with J mapped to 3
_map_alpha_accuracy_to_numeric_j3(code) ==
  LET mapping(upper) ==
        IF upper \in {<<"A">>, <<"B">>, <<"C">>, <<"D">>, <<"E">>, <<"F">>, <<"G">>} THEN <<"0">>
        ELSE IF upper = <<"H">> THEN <<"1">>
        ELSE IF upper = <<"I">> THEN <<"2">>
        ELSE IF upper = <<"J">> THEN <<"3">>
        ELSE IF upper = <<"K">> THEN <<"5">>
        ELSE IF upper = <<"L">> THEN <<"6">>
        ELSE IF upper = <<"M">> THEN <<"7">>
        ELSE IF upper = <<"Z">> THEN <<"9">>
        ELSE <<>>
  IN mapping(str_upper(code))

\* mapping.get(code.upper()): the numeric code, or "" for None
_map_alpha_accuracy_to_numeric(code) ==
  LET mapping(upper) ==
        IF upper \in {<<"A">>, <<"B">>, <<"C">>, <<"D">>, <<"E">>, <<"F">>, <<"G">>} THEN <<"0">>
        ELSE IF upper = <<"H">> THEN <<"1">>
        ELSE IF upper = <<"I">> THEN <<"2">>
        ELSE IF upper = <<"J">> THEN <<"4">>
        ELSE IF upper = <<"K">> THEN <<"5">>
        ELSE IF upper = <<"L">> THEN <<"6">>
        ELSE IF upper = <<"M">> THEN <<"7">>
        ELSE IF upper = <<"Z">> THEN <<"9">>
        ELSE <<>>
  IN mapping(str_upper(code))

\* float(text) for the decimal literals of the inputs; other text raises
IsFloatText(s) == IsSignedDecimal(s) \/ (Len(s) >= 2 /\ s[1] = "+" /\ IsUnsignedDecimal(Tail(s)))

FloatOfText(s) == IF s[1] = "+" THEN FloatOf(Tail(s)) ELSE FloatOf(s)

\* the values after the downgrade (in .v), or the ValueError
_apply_coordinate_downgrade(values_by_key, source_format, target_format, force) ==
  LET accuracy == Get(values_by_key, "accuracy_of_coordinates")
      Converted(values, latitude, longitude) ==
        IF ~IsFloatText(latitude) \/ ~IsFloatText(longitude)
        THEN Raise(ValueError, MSG_FLOAT)
        ELSE [Ok(NoneV) EXCEPT !.v =
                [k \in DOMAIN values \cup {"geographical_coordinates"} |->
                   IF k = "geographical_coordinates"
                   THEN euring_lat_to_dms(DecOfFloat(FloatOfText(latitude)))
                        \o euring_lng_to_dms(DecOfFloat(FloatOfText(longitude)))
                   ELSE values[k]]]
      Coordinates(values) ==
        IF \/ str_strip(Get(values, "geographical_coordinates")) # <<>>
           \/ Get(values, "latitude") = <<>>
           \/ Get(values, "longitude") = <<>>
        THEN [Ok(NoneV) EXCEPT !.v = values]
        ELSE Converted(values, Get(values, "latitude"), Get(values, "longitude"))
      Mapped(mapped) ==
        IF mapped = <<>> THEN Raise(ValueError, MSG_UNSUPPORTED_ACCURACY)
        ELSE Coordinates([values_by_key EXCEPT !["accuracy_of_coordinates"] = mapped])
  IN IF target_format \notin {FORMAT_EURING2000, FORMAT_EURING2000PLUS}
     THEN [Ok(NoneV) EXCEPT !.v = values_by_key]
     ELSE IF str_isalpha(accuracy)
     THEN (IF ~force THEN Raise(ValueError, MSG_ALPHA_NEEDS_FORCE)
           ELSE Mapped(_map_alpha_accuracy_to_numeric(accuracy)))
     ELSE Coordinates(values_by_key)

\* the target format and the values by key (in .v), or the ValueError
_convert_record_data(value, source_format, target_format, force) ==
  LET normalized_target == _normalize_target_format(target_format)
      Guarded(guard, values_by_key, normalized_source) ==
        IF ~guard.ok THEN guard
        ELSE _apply_coordinate_downgrade(values_by_key, normalized_source,
                                         normalized_target, force)
      Mapped(values_by_key, normalized_source) ==
        Guarded(_require_force_on_loss(values_by_key, normalized_source,
                                       normalized_target, force),
                values_by_key, normalized_source)
      Fixed(fields, normalized_source) ==
        IF ~fields.ok THEN fields
        ELSE Mapped(_map_fields_to_values(_fixed_width_fields, fields.v), normalized_source)
      Piped(fields, source_fields, normalized_source) ==
        IF /\ Len(fields) > Len(source_fields)
           /\ \E i \in (Len(source_fields) + 1)..Len(fields) : str_strip(fields[i]) # <<>>
        THEN Raise(ValueError, MSG_MORE_FIELDS)
        ELSE Mapped(_map_fields_to_values(source_fields, fields), normalized_source)
      Normalized(normalized_source) ==
        IF normalized_source = FORMAT_EURING2000
        THEN Fixed(_split_fixed_width(value), normalized_source)
        ELSE Piped(_split_pipe_delimited(value), _fields_for_format(normalized_source),
                   normalized_source)
  IN Normalized(_normalize_source_format(source_format, value))

_convert_record_string(value, source_format, target_format, force) ==
  LET Output(data, target_fields) ==
        IF ~data.ok THEN data
        ELSE IF _normalize_target_format(target_format) = FORMAT_EURING2000
        THEN Ok(StrV(_format_fixed_width(data.v, target_fields)))
        ELSE Ok(StrV(str_join(<<"|">>,
               [i \in 1..Len(target_fields) |-> Get(data.v, target_fields[i].key)])))
  IN Output(_convert_record_data(value, source_format, target_format, force),
            _fields_for_format(_normalize_target_format(target_format)))

\* EuringRecord.update(values): set for every item; values is the set of the
\* items of a dict whose keys are field keys
update(record, values) ==
  [record EXCEPT !.fields =
     [key \in EURING2020_KEYS |->
        IF \E item \in values : item.key = key
        THEN set(record, key, (CHOOSE item \in values : item.key = key).value).fields[key]
        ELSE record.fields[key]]]

(***************************************************************************)
(* Record: export to another format.                                       *)
(***************************************************************************)
FORMAT_JSON == "json"
MSG_USE_SERIALIZE == "Use serialize(output_format='json') for JSON output."

\* nothing was serialized
NoOutcome == [ok |-> FALSE, v |-> NoneV, exc |-> "none", msg |-> "", reasons |-> {}]

\* the outcome of an export: the record it leaves, the text the record
\* serialized to (or the error), the value returned or the exception raised,
\* and the warnings emitted
Outcome(done, result, warned) ==
  [record |-> done.record, serialized |-> done.result, result |-> result,
   warnings |-> warned]

\* the conversions of the text a record serialized to: without force, and
\* with the force of the call
Attempts(done, source_format, target_format, force) ==
  {[forced |-> forced,
    outcome |-> IF done.result.ok
                THEN _convert_record_string(done.result.v.s, source_format,
                                            target_format, forced)
                ELSE done.result] : forced \in {FALSE, force}}

AttemptOf(attempts, forced) == (CHOOSE a \in attempts : a.forced = forced).outcome

\* an export that converts with force at once, without the first attempt
export_forced_at_once(record, output_format, force, warn_on_loss) ==
  LET Returned(done, attempts) ==
        IF output_format = record.format \/ ~done.result.ok
        THEN Outcome(done, done.result, <<>>)
        ELSE Outcome(done, AttemptOf(attempts, force), <<>>)
  IN IF output_format = FORMAT_JSON
     THEN Outcome([record |-> record, result |-> NoOutcome],
                  Raise(ValueError, MSG_USE_SERIALIZE), <<>>)
     ELSE CHOOSE out \in
            UNION {{Returned(done, attempts) :
                      attempts \in {Attempts(done, record.format, output_format, force)}} :
                   done \in {serialize(record, NoFormat)}} : TRUE

\* EuringRecord.export(output_format, force=..., warn_on_loss=...).
\* output_format is FORMAT_JSON or a format of FORMAT_VALUES; the record is
\* serialized once and each conversion is made once.
export(record, output_format, force, warn_on_loss) ==
  LET normalized == output_format
      Returned(done, attempts) ==
        IF normalized = record.format \/ ~done.result.ok
        THEN Outcome(done, done.result, <<>>)
        ELSE IF force /\ warn_on_loss
        THEN (IF \/ AttemptOf(attempts, FALSE).ok
                 \/ AttemptOf(attempts, FALSE).exc # ValueError
              THEN Outcome(done, AttemptOf(attempts, FALSE), <<>>)
              ELSE Outcome(done, AttemptOf(attempts, force),
                           <<AttemptOf(attempts, FALSE)>>))
        ELSE Outcome(done, AttemptOf(attempts, force), <<>>)
  IN IF output_format = FORMAT_JSON
     THEN Outcome([record |-> record, result |-> NoOutcome],
                  Raise(ValueError, MSG_USE_SERIALIZE), <<>>)
     ELSE CHOOSE out \in
            UNION {{Returned(done, attempts) :
                      attempts \in {Attempts(done, record.format, normalized, force)}} :
                   done \in {serialize(record, NoFormat)}} : TRUE

(***************************************************************************)
(* Inputs: the records of the test fixtures.  _make_euring_record renders  *)
(* the default values, with overrides, in the layout of a format.          *)
(***************************************************************************)
DEFAULT_TEST_VALUES ==
  <<
    <<"G", "B", "B">>,
    <<"A", "0">>,
    <<"1", "2", "3", "4", "5", "6", "7", "8", "9", "0">>,
    <<"0">>,
    <<"1">>,
    <<"Z", "Z">>,
    <<"0", "0", "0", "1", "0">>,
    <<"0", "0", "0", "1", "0">>,
    <<"N">>,
    <<"0">>,
    <<"M">>,
    <<"U">>,
    <<"U">>,
    <<"U">>,
    <<"2">>,
    <<"2">>,
    <<"U">>,
    <<"9", "9">>,
    <<"9", "9">>,
    <<"0">>,
    <<"0", "1", "0", "1", "2", "0", "2", "4">>,
    <<"0">>,
    <<"0", "0", "0", "0">>,
    <<"A", "B", "0", "0">>,
    <<"+", "0", "0", "0", "0", "0", "0", "0", "+", "0", "0", "0", "0", "0", "0", "0">>,
    <<"1">>,
    <<"9">>,
    <<"9", "9">>,
    <<"0">>,
    <<"4">>,
    <<"0", "0", "0", "0", "0">>,
    <<"0", "0", "0">>,
    <<"0", "0", "0", "0", "0">>,
    <<>>,
    <<>>,
    <<>>,
    <<>>,
    <<>>,
    <<>>,
    <<>>,
    <<>>,
    <<>>,
    <<>>,
    <<>>,
    <<>>,
    <<>>,
    <<>>,
    <<>>,
    <<>>,
    <<>>,
    <<>>,
    <<>>,
    <<>>,
    <<>>,
    <<>>,
    <<>>,
    <<>>,
    <<>>,
    <<>>,
    <<>>,
    <<>>,
    <<>>,
    <<>>,
    <<>>
  >>

\* the coordinates of the second example record of the exchange-code manual
EXAMPLE_COORDS ==
  {[key |-> "geographical_coordinates",
    value |-> <<"+", "5", "8", "4", "2", "0", "0", "+", "0", "1", "3", "4", "8", "0", "0">>]}

\* the overrides of _make_euring2020_record_with_coords
WITH_COORDS ==
  {[key |-> "geographical_coordinates", value |-> Rep(".", 15)],
   [key |-> "accuracy_of_coordinates", value |-> <<"A">>],
   [key |-> "latitude", value |-> <<"5", "2", ".", "3", "7", "6", "0">>],
   [key |-> "longitude", value |-> <<"4", ".", "9", "0", "0", "0">>]}

\* `later` overrides `data`
Override(data, later) == {e \in data : \A l \in later : l.key # e.key} \cup later

\* the value of a key under a set of overrides with distinct keys
Overridden(values, data, key) ==
  IF \E e \in data : e.key = key
  THEN (CHOOSE e \in data : e.key = key).value
  ELSE values[FieldIndex(key) + 1]

_make_euring_record(data, format) ==
  LET fields == _fields_for_format(format)
      parts == [i \in 1..Len(fields) |-> Overridden(DEFAULT_TEST_VALUES, data, fields[i].key)]
  IN IF format = FORMAT_EURING2000 THEN str_concat(parts) ELSE str_join(<<"|">>, parts)

RecordEdits ==
  {[key |-> "geographical_coordinates", value |-> <<"+", "5", "0", "2", "4", "0", "0", "-", "0", "0", "0", "1", "5", "0", "0">>],
   [key |-> "geographical_coordinates", value |-> <<"+", "5", "0", "2", "4", "0", "0", "+", "0", "0", "5", "1", "5", "0", "0">>],
   [key |-> "geographical_coordinates", value |-> <<".", ".", ".", ".", ".", ".", ".", ".", ".", ".", ".", ".", ".", ".", ".">>],
   [key |-> "geographical_coordinates", value |-> <<>>],
   [key |-> "accuracy_of_coordinates", value |-> <<"A">>],
   [key |-> "accuracy_of_coordinates", value |-> <<"a">>],
   [key |-> "accuracy_of_coordinates", value |-> <<"5">>],
   [key |-> "latitude", value |-> <<"5", "2", ".", "3", "7", "6", "0">>],
   [key |-> "latitude", value |-> <<>>],
   [key |-> "longitude", value |-> <<"4", ".", "9", "0", "0", "0">>],
   [key |-> "longitude", value |-> <<>>],
   [key |-> "current_place_code", value |-> <<"A", "B", "0", "0">>],
   [key |-> "more_other_marks", value |-> <<"Z", "Z">>],
   [key |-> "wing_length", value |-> <<"1", "2", "0">>],
   [key |-> "wing_length", value |-> <<"1", "2", ".", "5">>],
   [key |-> "distance", value |-> <<"0", "0", "0", "1", "2">>],
   [key |-> "elapsed_time", value |-> <<"1">>],
   [key |-> "elapsed_time", value |-> <<"0", "0", "0", "0", "0", "X", "Y">>],
   [key |-> "more_other_marks", value |-> <<"Z", "Z", "|", "X">>],
   [key |-> "species_mentioned", value |-> <<"1", "2", "A", "B", "C">>],
   [key |-> "species_mentioned", value |-> <<"1", "2", "3">>],
   [key |-> "ringing_scheme", value |-> <<>>],
   [key |-> "brood_size", value |-> <<"-", "-">>],
   [key |-> "direction", value |-> <<"-", "-", "-">>],
   [key |-> "remarks", value |-> <<"O", "K">>]}

\* a fixture record with no override or with one
RecordInputs ==
  {_make_euring_record(Override(base, data), format) :
     base \in {EXAMPLE_COORDS, WITH_COORDS},
     data \in {{}} \cup {{e} : e \in RecordEdits},
     format \in FORMAT_VALUES}

ConvertEdits ==
  {[key |-> "accuracy_of_coordinates", value |-> <<"A">>],
   [key |-> "accuracy_of_coordinates", value |-> <<"B">>],
   [key |-> "accuracy_of_coordinates", value |-> <<"C">>],
   [key |-> "accuracy_of_coordinates", value |-> <<"D">>],
   [key |-> "accuracy_of_coordinates", value |-> <<"E">>],
   [key |-> "accuracy_of_coordinates", value |-> <<"F">>],
   [key |-> "accuracy_of_coordinates", value |-> <<"G">>],
   [key |-> "accuracy_of_coordinates", value |-> <<"H">>],
   [key |-> "accuracy_of_coordinates", value |-> <<"I">>],
   [key |-> "accuracy_of_coordinates", value |-> <<"J">>],
   [key |-> "accuracy_of_coordinates", value |-> <<"K">>],
   [key |-> "accuracy_of_coordinates", value |-> <<"L">>],
   [key |-> "accuracy_of_coordinates", value |-> <<"M">>],
   [key |-> "accuracy_of_coordinates", value |-> <<"Z">>],
   [key |-> "accuracy_of_coordinates", value |-> <<"N">>],
   [key |-> "accuracy_of_coordinates", value |-> <<"X">>],
   [key |-> "accuracy_of_coordinates", value |-> <<"a">>],
   [key |-> "accuracy_of_coordinates", value |-> <<"A", "B">>],
   [key |-> "accuracy_of_coordinates", value |-> <<"5">>],
   [key |-> "accuracy_of_coordinates", value |-> <<>>],
   [key |-> "latitude", value |-> <<>>],
   [key |-> "latitude", value |-> <<"N", "5", "2">>],
   [key |-> "longitude", value |-> <<>>],
   [key |-> "geographical_coordinates", value |-> <<>>],
   [key |-> "current_place_code", value |-> <<"A", "B", "0", "0">>],
   [key |-> "more_other_marks", value |-> <<"Z", "Z">>],
   [key |-> "wing_length", value |-> <<"1", "2", "0">>],
   [key |-> "remarks", value |-> <<"O", "K">>],
   [key |-> "elapsed_time", value |-> <<>>],
   [key |-> "distance", value |-> <<"1", "8">>]}

ConvertInputs ==
  {_make_euring_record(Override(base, data), format) :
     base \in {EXAMPLE_COORDS, WITH_COORDS},
     data \in {{}} \cup {{e} : e \in ConvertEdits},
     format \in FORMAT_VALUES}

\* the (key, value) pairs handed to EuringRecord.set
SetInputs ==
  {[key |-> "accuracy_of_coordinates", value |-> StrV(<<"A">>)],
   [key |-> "accuracy_of_coordinates", value |-> StrV(<<"1">>)],
   [key |-> "latitude", value |-> StrV(<<"5", "2", ".", "3", "7", "6", "0">>)],
   [key |-> "longitude", value |-> FloatV(FALSE, 49000)],
   [key |-> "current_place_code", value |-> StrV(<<"A", "B", "0", "0">>)],
   [key |-> "wing_length", value |-> StrV(<<"1", "2", "0">>)],
   [key |-> "geographical_coordinates", value |-> StrV(Rep(".", 15))],
   [key |-> "species_mentioned", value |-> IntV(10)],
   [key |-> "ringing_scheme", value |-> NoneV],
   [key |-> "ringing_scheme", value |-> StrV(<<"G", "B", "B">>)],
   [key |-> "date", value |-> StrV(<<"0", "1", "0", "1", "2", "0", "2", "4">>)],
   [key |-> "unknown_key", value |-> StrV(<<"v", "a", "l", "u", "e">>)]}

(***************************************************************************)
(* The state machine.  record is the EuringRecord in hand, result the      *)
(* outcome of the last call that returns text, detected the last detected  *)
(* format, op the log of the calls made.                                   *)
(***************************************************************************)
VARIABLES record, result, detected, op, warnings

vars == <<record, result, detected, op, warnings>>

NoRecord == NewRecord(NoFormat, FALSE)

NoResult == [ok |-> FALSE, v |-> NoneV, exc |-> "none", msg |-> "", reasons |-> {}]

\* an entry of the log
Call(name, value, format, source, force, key, had_errors) ==
  [name |-> name, value |-> value, format |-> format, source |-> source,
   force |-> force, key |-> key, had_errors |-> had_errors]

\* at most this many calls are made
MaxOps == 3

Last == op[Len(op)]

Init ==
  /\ record = NoRecord
  /\ result = NoResult
  /\ detected = NoFormat
  /\ op = <<>>
  /\ warnings = <<>>

\* EuringRecord.decode(value, format)
Decode(value, format) ==
  /\ op = <<>>
  /\ \E decoded \in {decode(value, format)} :
       /\ record' = decoded
       /\ op' = Append(op, Call("decode", value, format, NoFormat, FALSE, "",
                                has_errors(decoded.errors)))
  /\ UNCHANGED <<result, detected, warnings>>

\* EuringRecord(format, strict=strict)
New(format, strict) ==
  /\ op = <<>>
  /\ record' = NewRecord(format, strict)
  /\ op' = Append(op, Call("new", <<>>, format, NoFormat, strict, "", FALSE))
  /\ UNCHANGED <<result, detected, warnings>>

\* record.set(key, value): a key outside _FIELD_MAP raises
Set(key, value) ==
  /\ op # <<>>
  /\ record.format # NoFormat
  /\ Len(op) < MaxOps
  /\ Last.name \in {"new", "set"}
  /\ IF key \notin EURING2020_KEYS
     THEN /\ result' = Raise(ValueError, MSG_UNKNOWN_KEY)
          /\ UNCHANGED record
     ELSE /\ record' = set(record, key, value)
          /\ UNCHANGED result
  /\ op' = Append(op, Call("set", FormatV(value), NoFormat, NoFormat, FALSE, key,
                           has_errors(record'.errors)))
  /\ UNCHANGED <<detected, warnings>>

\* record.validate()
Validate ==
  /\ record.format # NoFormat
  /\ Len(op) < MaxOps
  /\ \E validated \in {validate(record)} :
       /\ record' = validated
       /\ op' = Append(op, Call("validate", <<>>, NoFormat, NoFormat, FALSE, "",
                                has_errors(validated.errors)))
  /\ UNCHANGED <<result, detected, warnings>>

\* record.serialize(output_format)
Serialize(output_format) ==
  /\ record.format # NoFormat
  /\ Len(op) < MaxOps
  /\ \E done \in {serialize(record, output_format)} :
       /\ record' = done.record
       /\ result' = done.result
       /\ op' = Append(op, Call("serialize", <<>>, output_format, NoFormat, FALSE, "",
                                has_errors(done.record.errors)))
  /\ UNCHANGED <<detected, warnings>>

Next ==
  \/ /\ op = <<>>
     /\ \E value \in RecordInputs, format \in FORMAT_VALUES \cup {NoFormat} : Decode(value, format)
  \/ /\ op = <<>>
     /\ \E format \in FORMAT_VALUES, strict \in BOOLEAN : New(format, strict)
  \/ /\ op # <<>>
     /\ \E e \in SetInputs : Set(e.key, e.value)
  \/ Validate
  \/ /\ op # <<>>
     /\ \E output_format \in {NoFormat, FORMAT_EURING2020} : Serialize(output_format)

Spec == Init /\ [][Next]_vars

(***************************************************************************)
(* The converter's state machine: a record text is decoded, or its format  *)
(* detected, or it is converted and the output converted again.            *)
(***************************************************************************)
\* at most this many conversions are chained
MaxConverts == 2

\* euring_detect_format(value)
Detect(value) ==
  /\ op = <<>>
  /\ detected' = euring_detect_format(value)
  /\ op' = Append(op, Call("detect", value, NoFormat, NoFormat, FALSE, "", FALSE))
  /\ UNCHANGED <<record, result, warnings>>

\* the calls of the converter that can come next: on a fixture record, on the
\* text just decoded, or on the output of the last conversion
ConvertCalls ==
  IF op = <<>> \/ Last.name = "decode"
  THEN [value : IF op = <<>> THEN ConvertInputs ELSE {Last.value},
        source : FORMAT_VALUES \cup {NoFormat}, target : FORMAT_VALUES, force : BOOLEAN]
  ELSE IF Last.name = "convert" /\ result.ok
  THEN [value : {result.v.s}, source : {NoFormat}, target : FORMAT_VALUES,
        force : {Last.force}]
  ELSE {}

\* _convert_record_string(value, source_format=..., target_format=..., force=...)
Convert(value, source_format, target_format, force) ==
  /\ Cardinality({i \in DOMAIN op : op[i].name = "convert"}) < MaxConverts
  /\ result' = _convert_record_string(value, source_format, target_format, force)
  /\ op' = Append(op, Call("convert", value, target_format, source_format, force, "", FALSE))
  /\ UNCHANGED <<record, detected, warnings>>

NextConvert ==
  \/ /\ op = <<>>
     /\ \E value \in ConvertInputs : Decode(value, NoFormat)
  \/ /\ op = <<>>
     /\ \E value \in ConvertInputs : Detect(value)
  \/ \E c \in ConvertCalls : Convert(c.value, c.source, c.target, c.force)

SpecConvert == Init /\ [][NextConvert]_vars

(***************************************************************************)
(* The coordinate codec's state machine: a combined coordinate text is     *)
(* converted to a {lat, lng} pair, and a pair to a combined text.          *)
(***************************************************************************)
\* latitude and longitude components that pass the coordinate validation
LatitudeTexts ==
  {<<"+", "4", "2", "0", "5", "0", "0">>, <<"-", "0", "0", "0", "0", "0", "0">>,
   <<"-", "0", "0", "1", "5", "0", "0">>, <<"+", "0", "0", "1", "5", "3", "0">>,
   <<"+", "9", "0", "0", "0", "0", "0">>, <<"-", "8", "9", "5", "9", "5", "9">>,
   <<"+", "5", "8", "4", "2", "0", "0">>}

LongitudeTexts ==
  {<<"-", "0", "1", "0", "0", "2", "0", "3">>, <<"+", "0", "1", "3", "4", "8", "0", "0">>,
   <<"-", "0", "0", "0", "1", "5", "0", "0">>, <<"+", "0", "0", "0", "0", "0", "0", "0">>,
   <<"+", "1", "8", "0", "0", "0", "0", "0">>, <<"-", "1", "7", "9", "5", "9", "5", "9">>,
   <<"-", "0", "0", "0", "0", "0", "0", "1">>}

CoordinateTexts == {lat \o lng : lat \in LatitudeTexts, lng \in LongitudeTexts}

\* degrees, minutes, seconds and fiftieths of a second as a magnitude
Dms(degrees, minutes, seconds, fiftieths) ==
  (degrees * 3600 + minutes * 60 + seconds) * (UnitsPerDegree \div 3600) + fiftieths

\* magnitudes of decimal coordinates: plain values, values whose seconds
\* round up into the minutes and the degrees, and values beyond the ranges
\* of a latitude and of a longitude
LatitudeMagnitudes ==
  {0, Dms(0, 15, 0, 0), Dms(52, 22, 33, 30), Dms(12, 34, 56, 25), Dms(59, 59, 59, 30),
   Dms(89, 59, 59, 40), Dms(90, 0, 0, 0), Dms(99, 59, 59, 45), Dms(100, 0, 0, 0)}

LongitudeMagnitudes ==
  {0, Dms(0, 0, 0, 30), Dms(4, 54, 0, 0), Dms(9, 59, 59, 30), Dms(179, 59, 59, 49),
   Dms(180, 0, 0, 0), Dms(999, 59, 59, 25), Dms(1000, 0, 0, 0)}

CoordinatePairs ==
  {GeoV(latneg, lat, lngneg, lng) :
     latneg \in BOOLEAN, lat \in LatitudeMagnitudes,
     lngneg \in BOOLEAN, lng \in LongitudeMagnitudes}

\* euring_coordinates_to_lat_lng(value)
ToLatLng(value) ==
  /\ op = <<>>
  /\ result' = Ok(euring_coordinates_to_lat_lng(value))
  /\ op' = Append(op, Call("euring_coordinates_to_lat_lng", value, NoFormat, NoFormat,
                           FALSE, "", FALSE))
  /\ UNCHANGED <<record, detected, warnings>>

\* lat_lng_to_euring_coordinates(pair["lat"], pair["lng"])
ToCombined(pair) ==
  /\ result' = Ok(StrV(lat_lng_to_euring_coordinates(LatOf(pair), LngOf(pair))))
  /\ op' = Append(op, Call("lat_lng_to_euring_coordinates", pair, NoFormat, NoFormat,
                           FALSE, "", FALSE))
  /\ UNCHANGED <<record, detected, warnings>>

NextCodec ==
  \/ \E value \in CoordinateTexts : ToLatLng(value)
  \/ /\ op = <<>>
     /\ \E pair \in CoordinatePairs : ToCombined(pair)
  \/ /\ op # <<>> /\ Last.name = "euring_coordinates_to_lat_lng"
     /\ ToCombined(result.v)

SpecCodec == Init /\ [][NextCodec]_vars

(***************************************************************************)
(* The raw split's state machine: a record text is built from one raw      *)
(* value per field of a format and split by euring_record_to_dict.         *)
(***************************************************************************)
\* the raw values _make_euring_record joins, one per field of the format
RawValues(data, format) ==
  LET fields == _fields_for_format(format)
  IN [i \in 1..Len(fields) |-> Overridden(DEFAULT_TEST_VALUES, data, fields[i].key)]

\* overrides that keep the width of a fixed-width field
FixedEdits ==
  {[key |-> EURING2000_FIELDS[i].key, value |-> Rep(c, EURING2000_FIELDS[i].length)] :
     i \in DOMAIN EURING2000_FIELDS, c \in {"-", "|"}}

SplitEdits ==
  RecordEdits \cup FixedEdits \cup {[key |-> "remarks", value |-> <<"O", "|", "K">>]}

SplitInputs ==
  [data : {Override(base, data) : base \in {EXAMPLE_COORDS, WITH_COORDS},
                                  data \in {{}} \cup {{e} : e \in SplitEdits}},
   format : FORMAT_VALUES]

\* euring_record_to_dict(_make_euring_record(data, format), format=format)
RecordToDict(data, format) ==
  /\ op = <<>>
  /\ result' = euring_record_to_dict(_make_euring_record(data, format), format)
  /\ op' = Append(op, Call("euring_record_to_dict", RawValues(data, format), format,
                           NoFormat, FALSE, "", FALSE))
  /\ UNCHANGED <<record, detected, warnings>>

NextSplit == \E input \in SplitInputs : RecordToDict(input.data, input.format)

SpecSplit == Init /\ [][NextSplit]_vars

(***************************************************************************)
(* The field schema's state machine: a raw text is parsed by a field       *)
(* definition, or a typed value is encoded for a format by the field       *)
(* definition or by the record serializer's helper.                        *)
(***************************************************************************)
\* field definitions beside those of the field table: EuringField(key=...,
\* euring_type=..., length=..., required=..., variable_length=...,
\* empty_value=...)
AdHocFields ==
  {FieldDef("signed_variable", TYPE_NUMERIC_SIGNED, 6, FALSE, TRUE, ""),
   FieldDef("signed_fixed", TYPE_NUMERIC_SIGNED, 6, FALSE, FALSE, ""),
   FieldDef("numeric_variable", TYPE_NUMERIC, 5, FALSE, TRUE, ""),
   FieldDef("numeric_fixed", TYPE_NUMERIC, 5, TRUE, FALSE, ""),
   FieldDef("integer_unbounded", TYPE_INTEGER, 0, TRUE, FALSE, ""),
   FieldDef("integer_variable_required", TYPE_INTEGER, 3, TRUE, TRUE, ""),
   [FieldDef("integer_placeholder", TYPE_INTEGER, 3, TRUE, FALSE, "")
      EXCEPT !.empty_value = <<"9", "9", "9">>],
   [FieldDef("text_placeholder", TYPE_TEXT, 0, FALSE, FALSE, "")
      EXCEPT !.empty_value = <<"?">>]}

FieldDefs == {EURING_FIELDS[i] : i \in DOMAIN EURING_FIELDS} \cup AdHocFields

\* the field definition of a key
FieldOf(key) == CHOOSE f \in FieldDefs : f.key = key

\* the raw texts handed to parse
ParseInputs ==
  {<<>>, <<"1">>, <<"1", "8">>, <<"0", "1", "0">>, <<"1", "2", "0">>,
   <<"0", "0", "0", "1", "2">>, <<"1", "2", ".", "5">>, <<"1", "2", ".", "5", "0">>,
   <<"-", "1", ".", "5">>, <<"-", "0", "1", ".", "5", "0">>,
   <<"-">>, <<"-", "-">>, <<"-", "-", "-">>, <<"-", "-", "-", "-", "-">>,
   <<"A">>, <<"A", "B", "C">>, <<"A", "1">>, <<"1", "2", "3", "4", "5", "6">>,
   <<"1", "2", "A", "B", "C", "D", "E">>, <<"-", "-", "-", "-", "-", "-", "-", "-">>,
   <<"-", "-", "-", "-", "-", "-", "-", "-", "-">>}

\* the typed values handed to the encoders
EncodeInputs ==
  {NoneV, StrV(<<>>), IntV(0), IntV(7), IntV(18), IntV(120),
   FloatV(FALSE, 125000), FloatV(FALSE, 1200000), FloatV(TRUE, 15000), FloatV(TRUE, 1200000),
   StrV(<<"1", "2", "0">>), StrV(<<"0", "0", "0", "1", "2">>), StrV(<<"1", "2", ".", "5", "0">>),
   StrV(<<"-", "1", ".", "5">>), StrV(<<"-", "-", "-">>), StrV(<<"A">>)}

\* field.parse(raw)
ParseField(f, raw) ==
  /\ op = <<>>
  /\ result' = parse(f, raw)
  /\ op' = Append(op, Call("parse", raw, NoFormat, NoFormat, FALSE, f.key, FALSE))
  /\ UNCHANGED <<record, detected, warnings>>

\* field.encode_for_format(value, format=format)
EncodeForFormat(f, value, format) ==
  /\ op = <<>>
  /\ result' = encode_for_format(f, value, format)
  /\ op' = Append(op, Call("encode_for_format", value, format, NoFormat, FALSE, f.key, FALSE))
  /\ UNCHANGED <<record, detected, warnings>>

\* _serialize_field_value(field, value, format)
SerializeFieldValue(f, value, format) ==
  /\ op = <<>>
  /\ result' = _serialize_field_value(f, value, format)
  /\ op' = Append(op, Call("_serialize_field_value", value, format, NoFormat, FALSE,
                           f.key, FALSE))
  /\ UNCHANGED <<record, detected, warnings>>

NextField ==
  \/ \E f \in FieldDefs, raw \in ParseInputs : ParseField(f, raw)
  \/ \E f \in FieldDefs, value \in EncodeInputs, format \in FORMAT_VALUES :
       EncodeForFormat(f, value, format)
  \/ \E f \in FieldDefs, value \in EncodeInputs, format \in FORMAT_VALUES :
       SerializeFieldValue(f, value, format)

SpecField == Init /\ [][NextField]_vars

(***************************************************************************)
(* The exporter's state machine: a record is built from the values of a    *)
(* fixture record and exported to a format.                                *)
(***************************************************************************)
\* the mark of an export called with warn_on_loss=False
WarnOff == "warn_on_loss=False"

\* the values of a fixture record of a format: the defaults under overrides
FixtureValues(data, format) ==
  {[key |-> _fields_for_format(format)[i].key,
    value |-> StrV(Overridden(DEFAULT_TEST_VALUES, data, _fields_for_format(format)[i].key))] :
     i \in DOMAIN _fields_for_format(format)}

\* the fixture records that are exported
ExportEdits == {e \in ConvertEdits : e.key = "distance"}

ExportInputs ==
  {[format |-> format, values |-> FixtureValues(Override(base, data), format)] :
     base \in {EXAMPLE_COORDS, WITH_COORDS},
     data \in {{}} \cup {{e} : e \in ExportEdits},
     format \in FORMAT_VALUES}

\* record = EuringRecord(format, strict=strict); record.update(values)
Update(format, strict, values) ==
  /\ op = <<>>
  /\ record' = update(NewRecord(format, strict), values)
  /\ op' = Append(op, Call("update", <<>>, format, NoFormat, strict, "", FALSE))
  /\ UNCHANGED <<result, detected, warnings>>

\* record.export(output_format, force=force, warn_on_loss=warn_on_loss); the
\* entry of the log holds the text the record serializes to
Export(output_format, force, warn_on_loss) ==
  /\ op # <<>> /\ Last.name = "update"
  /\ \E done \in {export(record, output_format, force, warn_on_loss)} :
       /\ record' = done.record
       /\ result' = done.result
       /\ warnings' = done.warnings
       /\ op' = Append(op, Call("export", done.serialized, output_format,
                                record.format, force,
                                IF warn_on_loss THEN "" ELSE WarnOff,
                                has_errors(done.record.errors)))
  /\ UNCHANGED detected

NextExport ==
  \/ \E input \in ExportInputs, strict \in BOOLEAN :
       Update(input.format, strict, input.values)
  \/ \E output_format \in FORMAT_VALUES \cup {FORMAT_JSON}, force \in BOOLEAN,
        warn_on_loss \in BOOLEAN : Export(output_format, force, warn_on_loss)

SpecExport == Init /\ [][NextExport]_vars

(***************************************************************************)
(* Properties of EuringRecord: decode, validate, serialize.                *)
(***************************************************************************)
\* the record in hand was produced by EuringRecord.decode
Decoded == op # <<>> /\ op[1].name = "decode"

\* the raw text the decoded record holds for a key
RawOf(key) == record.fields[key].raw_value

\* the entries of errors["fields"] for a key, and those carrying a message
ErrorsOn(key) == {i \in DOMAIN record.errors.fields : record.errors.fields[i].key = key}

ErrorsWith(message) ==
  {i \in DOMAIN record.errors.fields : record.errors.fields[i].message = message}

\* C1: a record text that decodes under a declared format with no record and
\* no field errors is reproduced character for character by serialize().
C1_RoundTrip ==
  (/\ Len(op) = 2
   /\ op[1].name = "decode" /\ op[1].format # NoFormat /\ ~op[1].had_errors
   /\ op[2].name = "serialize" /\ op[2].format = NoFormat)
  => (result.ok /\ result.v.s = op[1].value)

\* the coordinate fields of a decoded EURING2020 record
CoordinateKeys == {"geographical_coordinates", "latitude", "longitude"}

OthersValid == \A i \in DOMAIN record.errors.fields :
                 record.errors.fields[i].key \in CoordinateKeys

\* C4: a decoded EURING2020 record with a valid latitude, an empty longitude,
\* the 15-dot placeholder and every other field valid has exactly one error,
\* the missing-longitude error on longitude, and none on
\* geographical_coordinates; symmetrically for a longitude without latitude.
C4_MissingPartner ==
  (/\ Decoded /\ record.format = FORMAT_EURING2020 /\ record.errors.record = <<>>
   /\ RawOf("geographical_coordinates") = Rep(".", 15)
   /\ OthersValid)
  => /\ (/\ RawOf("latitude") # <<>> /\ parse_latitude(RawOf("latitude")).ok
         /\ RawOf("longitude") = <<>>)
        => /\ Len(record.errors.fields) = 1
           /\ record.errors.fields[1].key = "longitude"
           /\ record.errors.fields[1].message = MSG_LNG_REQUIRED
     /\ (/\ RawOf("longitude") # <<>> /\ parse_longitude(RawOf("longitude")).ok
         /\ RawOf("latitude") = <<>>)
        => /\ Len(record.errors.fields) = 1
           /\ record.errors.fields[1].key = "latitude"
           /\ record.errors.fields[1].message = MSG_LAT_REQUIRED

C4_Witness ==
  /\ Decoded /\ record.format = FORMAT_EURING2020 /\ record.errors.record = <<>>
  /\ RawOf("geographical_coordinates") = Rep(".", 15)
  /\ RawOf("latitude") # <<>> /\ RawOf("longitude") = <<>>
  /\ Len(record.errors.fields) = 1
  /\ ErrorsOn("longitude") = {1}

\* the geographical_coordinates error of the rule engine
GeoRuleError == ErrorsOn("geographical_coordinates") \cap ErrorsWith(MSG_GEO_DOTS) # {}

HasLatOrLng ==
  /\ Decoded /\ record.format = FORMAT_EURING2020
  /\ (RawOf("latitude") # <<>> \/ RawOf("longitude") # <<>>)

\* C5 as stated: with a latitude or longitude in a EURING2020 record, the
\* rule engine reports an error on geographical_coordinates for every value
\* that is not exactly 15 dots, the empty text included, and none for 15 dots.
C5_AsStated ==
  HasLatOrLng => (GeoRuleError <=> RawOf("geographical_coordinates") # Rep(".", 15))

\* C5 amended: the error is reported exactly when geographical_coordinates is
\* non-empty and not 15 dots; an empty value stands for the placeholder.
C5_NonEmptyNotDots ==
  HasLatOrLng => (GeoRuleError <=> /\ RawOf("geographical_coordinates") # <<>>
                                   /\ RawOf("geographical_coordinates") # Rep(".", 15))

C5_Witness ==
  /\ HasLatOrLng /\ GeoRuleError
  /\ RawOf("geographical_coordinates") \notin {<<>>, Rep(".", 15)}

\* validation has just run on the record in hand
Validated == op # <<>> /\ Last.name \in {"decode", "validate"}

\* the text of accuracy_of_coordinates: the decoded text, or the text set
AccuracyText ==
  IF record.fields["accuracy_of_coordinates"].has_raw
  THEN record.fields["accuracy_of_coordinates"].raw_value
  ELSE IF /\ record.fields["accuracy_of_coordinates"].present
          /\ record.fields["accuracy_of_coordinates"].value.t = "str"
  THEN record.fields["accuracy_of_coordinates"].value.s
  ELSE <<>>

AccuracyIsAlphabetic == AccuracyText # <<>> /\ str_isalpha(AccuracyText)

\* C6: validation of a EURING2000 or EURING2000PLUS record, decoded or built
\* with set, reports an error on accuracy_of_coordinates whenever its value is
\* alphabetic; under EURING2020 the alphabetic-accuracy error is not reported.
C6_AlphabeticAccuracyGated ==
  (Validated /\ AccuracyIsAlphabetic)
  => /\ record.format \in {FORMAT_EURING2000, FORMAT_EURING2000PLUS}
        => ErrorsOn("accuracy_of_coordinates") # {}
     /\ record.format = FORMAT_EURING2020
        => ErrorsWith(MSG_ALPHA_ACCURACY) = {}

C6_Witness ==
  /\ op # <<>> /\ op[1].name = "new" /\ Last.name = "validate"
  /\ AccuracyIsAlphabetic
  /\ record.format = FORMAT_EURING2000PLUS
  /\ ErrorsOn("accuracy_of_coordinates") \cap ErrorsWith(MSG_ALPHA_ACCURACY) # {}

\* the record holds a non-empty value for a key
Holds(key) == record.fields[key].present /\ ~IsEmptyV(record.fields[key].value)

\* C7 as stated: validation of a EURING2000PLUS record reports an error for
\* each of latitude, longitude, current_place_code, more_other_marks that
\* holds a non-empty value, and validation of a EURING2000 record reports an
\* error for each non-empty field outside the fixed-width list.
C7_AsStated ==
  Validated
  => /\ record.format = FORMAT_EURING2000PLUS
        => \A key \in {"latitude", "longitude", "current_place_code", "more_other_marks"} :
             Holds(key) => ErrorsOn(key) # {}
     /\ record.format = FORMAT_EURING2000
        => \A key \in EURING2020_KEYS \ KeysOf(_fixed_width_fields) :
             Holds(key) => ErrorsOn(key) # {}

\* C8: a pipe-delimited text decoded without a format hint that carries an
\* alphabetic accuracy_of_coordinates or a non-empty latitude, longitude,
\* current_place_code or more_other_marks gives a EURING2020 record with
\* neither the EURING2020-only error nor the alphabetic-accuracy error.
C8_AutoPromotion ==
  (/\ Decoded /\ op[1].format = NoFormat /\ HasChar(op[1].value, "|")
   /\ \/ RawOf("accuracy_of_coordinates") # <<>> /\ str_isalpha(RawOf("accuracy_of_coordinates"))
      \/ \E key \in {"latitude", "longitude", "current_place_code", "more_other_marks"} :
           RawOf(key) # <<>>)
  => /\ record.format = FORMAT_EURING2020
     /\ ErrorsWith(MSG_2020_ONLY) = {}
     /\ ErrorsWith(MSG_ALPHA_ACCURACY) = {}

C8_Witness ==
  /\ Decoded /\ op[1].format = NoFormat
  /\ Len(str_split(op[1].value)) = Len(EURING2000PLUS_FIELDS)
  /\ RawOf("accuracy_of_coordinates") = <<"A">>
  /\ record.format = FORMAT_EURING2020

(***************************************************************************)
(* Properties of the format detector and of the converter.                 *)
(***************************************************************************)
\* C2: for a valid 94-character EURING2000 record, the conversion to
\* EURING2000PLUS without force does not raise, and converting its output to
\* EURING2000 without force returns the record unchanged.
C2_Idempotence ==
  (/\ Len(op) >= 2
   /\ op[1].name = "decode" /\ ~op[1].had_errors
   /\ record.format = FORMAT_EURING2000 /\ Len(op[1].value) = RecordLength
   /\ op[2].name = "convert" /\ op[2].value = op[1].value
   /\ op[2].source \in {NoFormat, FORMAT_EURING2000}
   /\ op[2].format = FORMAT_EURING2000PLUS /\ ~op[2].force)
  => /\ Len(op) = 2 => result.ok
     /\ (Len(op) = 3 /\ op[3].name = "convert" /\ op[3].format = FORMAT_EURING2000)
        => result = Ok(StrV(op[1].value))

C2_Witness ==
  /\ Len(op) = 3
  /\ op[1].name = "decode" /\ ~op[1].had_errors
  /\ record.format = FORMAT_EURING2000 /\ Len(op[1].value) = RecordLength
  /\ op[2].name = "convert" /\ op[2].value = op[1].value
  /\ op[2].format = FORMAT_EURING2000PLUS /\ ~op[2].force
  /\ op[3].name = "convert" /\ op[3].format = FORMAT_EURING2000
  /\ HasChar(op[3].value, "|")
  /\ result.ok /\ result.v.s = op[1].value

\* the token of a key in a record text, read by the layout of the text
TokenOf(text, key) ==
  LET Token(tokens) ==
        IF FieldIndex(key) < Len(tokens) THEN tokens[FieldIndex(key) + 1] ELSE <<>>
      Chunk(fixed, i) ==
        IF i > Len(fixed) THEN <<>>
        ELSE Slice(text, StartOf(fixed, i), StartOf(fixed, i) + fixed[i].length)
  IN IF HasChar(text, "|") THEN Token(str_split(text))
     ELSE Chunk(_fixed_width_fields, FieldIndex(key) + 1)

Alphabetic(token) == token # <<>> /\ \A i \in DOMAIN token : token[i] \in Letters

\* C3: detection gives EURING2000 for a text without "|"; for a text with "|"
\* it gives EURING2020 when there are more than 60 tokens or the
\* accuracy_of_coordinates token is alphabetic, and EURING2000PLUS otherwise.
C3_DetectFormat ==
  (op # <<>> /\ Last.name = "detect")
  => detected =
       IF ~HasChar(Last.value, "|") THEN FORMAT_EURING2000
       ELSE IF \/ Len(str_split(Last.value)) > 60
               \/ Alphabetic(TokenOf(Last.value, "accuracy_of_coordinates"))
       THEN FORMAT_EURING2020
       ELSE FORMAT_EURING2000PLUS

C3_Witness ==
  /\ op # <<>> /\ Last.name = "detect"
  /\ Len(str_split(Last.value)) = 60
  /\ Alphabetic(TokenOf(Last.value, "accuracy_of_coordinates"))
  /\ detected = FORMAT_EURING2020

\* a conversion has just been made, of a text whose layout the converter can
\* split, with the source format left to the converter or declared as the
\* converter would detect it
Converted ==
  /\ op # <<>> /\ Last.name = "convert"
  /\ Last.source \in {NoFormat, _normalize_source_format(NoFormat, Last.value)}
  /\ \/ HasChar(Last.value, "|")
     \/ /\ Len(Last.value) >= RecordLength
        /\ str_strip(SliceFrom(Last.value, RecordLength)) = <<>>

\* the loss reasons of a text for a target format
PotentialLosses(text, target_format) ==
  {"drop " \o key : key \in {k \in {"latitude", "longitude", "current_place_code",
                                    "more_other_marks"} : TokenOf(text, k) # <<>>}}
  \cup (IF Alphabetic(TokenOf(text, "accuracy_of_coordinates"))
        THEN {"alphabetic coordinate accuracy"} ELSE {})
  \cup (IF target_format = FORMAT_EURING2000
        THEN {"drop " \o key : key \in {k \in EURING2020_KEYS :
                                          /\ k \notin {EURING_FIELDS[i].key : i \in 1..33}
                                          /\ TokenOf(text, k) # <<>>}}
        ELSE {})

\* C9: a conversion without force to EURING2000 or EURING2000PLUS raises
\* exactly when the text has a potential loss, the one error raised names
\* every distinct loss reason, and without a potential loss it does not raise.
C9_LossGuard ==
  (Converted /\ ~Last.force /\ Last.format \in {FORMAT_EURING2000, FORMAT_EURING2000PLUS})
  => IF PotentialLosses(Last.value, Last.format) # {}
     THEN /\ ~result.ok /\ result.msg = MSG_LOSS
          /\ result.reasons = PotentialLosses(Last.value, Last.format)
     ELSE result.ok

C9_Witness ==
  /\ Converted /\ ~Last.force /\ Last.format = FORMAT_EURING2000
  /\ ~result.ok /\ result.msg = MSG_LOSS
  /\ {"alphabetic coordinate accuracy", "drop latitude", "drop remarks"} \subseteq result.reasons

\* the table of the forced downgrade
DowngradeCodes == {<<"A">>, <<"B">>, <<"C">>, <<"D">>, <<"E">>, <<"F">>, <<"G">>,
                   <<"H">>, <<"I">>, <<"J">>, <<"K">>, <<"L">>, <<"M">>, <<"Z">>}

DowngradeOf(code) ==
  CASE code \in {<<"A">>, <<"B">>, <<"C">>, <<"D">>, <<"E">>, <<"F">>, <<"G">>} -> <<"0">>
    [] code = <<"H">> -> <<"1">>
    [] code = <<"I">> -> <<"2">>
    [] code = <<"J">> -> <<"4">>
    [] code = <<"K">> -> <<"5">>
    [] code = <<"L">> -> <<"6">>
    [] code = <<"M">> -> <<"7">>
    [] code = <<"Z">> -> <<"9">>
    [] OTHER -> <<>>

Forced ==
  Converted /\ Last.force /\ Last.format \in {FORMAT_EURING2000, FORMAT_EURING2000PLUS}

AccuracyIn == TokenOf(Last.value, "accuracy_of_coordinates")

AccuracyOut == TokenOf(result.v.s, "accuracy_of_coordinates")

LatitudeIn == TokenOf(Last.value, "latitude")

LongitudeIn == TokenOf(Last.value, "longitude")

CoordinatesIn == TokenOf(Last.value, "geographical_coordinates")

CoordinatesOut == TokenOf(result.v.s, "geographical_coordinates")

\* C11: a forced conversion to EURING2000 or EURING2000PLUS of a text with
\* both latitude and longitude writes the 7-character encoding of the
\* latitude followed by the 8-character encoding of the longitude as
\* geographical_coordinates when that token is blank or the 15-dot
\* placeholder, and leaves a real coordinate value unchanged.
C11_Regeneration ==
  (/\ Forced /\ result.ok
   /\ IsFloatText(LatitudeIn) /\ IsFloatText(LongitudeIn))
  => IF str_strip(CoordinatesIn) = <<>> \/ CoordinatesIn = Rep(".", 15)
     THEN CoordinatesOut = euring_lat_to_dms(DecOfFloat(FloatOfText(LatitudeIn)))
                           \o euring_lng_to_dms(DecOfFloat(FloatOfText(LongitudeIn)))
     ELSE CoordinatesOut = CoordinatesIn

(***************************************************************************)
(* Properties of serialize, set and decode.                                *)
(***************************************************************************)
\* serialize() was the last call and its output format was accepted
Serialized ==
  /\ op # <<>> /\ Last.name = "serialize"
  /\ (Last.format = NoFormat \/ Last.format = record.format)

\* some error other than 'required field empty' is present
OtherThanRequiredEmpty ==
  \/ record.errors.record # <<>>
  \/ \E i \in DOMAIN record.errors.fields :
       record.errors.fields[i].message # MSG_REQUIRED_EMPTY

\* the record was built with set, and some required field of its format is unset
UnsetRequired ==
  /\ op[1].name = "new"
  /\ \E i \in DOMAIN _fields_for_format(record.format) :
       /\ _fields_for_format(record.format)[i].required
       /\ ~record.fields[_fields_for_format(record.format)[i].key].present

\* no error is reported on a field that was set
SetFieldsValid ==
  \A i \in DOMAIN record.errors.fields :
    ~record.fields[record.errors.fields[i].key].present

\* the policy alone: a strict record with an error raises, and a record that
\* is not strict raises only on an error other than 'required field empty'
StrictnessPolicy ==
  Serialized =>
    /\ (record.strict /\ has_errors(record.errors)) => ~result.ok
    /\ (~record.strict /\ ~result.ok) => OtherThanRequiredEmpty

SetCalled ==
  /\ Len(op') = Len(op) + 1
  /\ op'[Len(op')].name = "set"

\* what a call of set may change
SetFrame(key) ==
  IF key \notin EURING2020_KEYS
  THEN /\ ~result'.ok /\ result'.exc = ValueError
       /\ record' = record
  ELSE /\ result' = result
       /\ record'.fields[key].present
       /\ FormatV(record'.fields[key].value) = op'[Len(op')].value
       /\ \A other \in EURING2020_KEYS \ {key} : record'.fields[other] = record.fields[other]
       /\ record'.format = record.format
       /\ record'.strict = record.strict
       /\ record'.errors = record.errors

\* C14: set with a key that is not a key of the field table raises at once,
\* records no validation error and leaves the field map, the format, the
\* strict flag and the errors unchanged; set with a known key changes only
\* the slot of that key.
C14_SetFrame == [][SetCalled => SetFrame(op'[Len(op')].key)]_vars

\* an unknown key was refused after a known key had been set
C14_Witness ==
  /\ Len(op) = 3 /\ op[2].name = "set" /\ op[3].name = "set"
  /\ op[2].key \in EURING2020_KEYS /\ op[3].key \notin EURING2020_KEYS
  /\ record.fields[op[2].key].present
  /\ ~result.ok /\ result.msg = MSG_UNKNOWN_KEY

\* decode was the only call made
JustDecoded == Len(op) = 1 /\ op[1].name = "decode"

\* the raw text of a field of the record's format does not parse
FailsParsing(field) ==
  ~parse(coerce_field(FixedLengthIn2000(field, record.format)), RawOf(field.key)).ok

\* C15: decode returns a record whose errors["fields"] has an entry, with
\* the field's key and canonical index, for every field of the resolved
\* format's list whose raw value fails parsing.
C15_BatchedErrors ==
  JustDecoded =>
    \A i \in DOMAIN _fields_for_format(record.format) :
      FailsParsing(_fields_for_format(record.format)[i]) =>
        \E n \in DOMAIN record.errors.fields :
          /\ record.errors.fields[n].key = _fields_for_format(record.format)[i].key
          /\ record.errors.fields[n].index = i - 1

\* the text decoded and the format declared for it
DecodedText == op[1].value

DeclaredFormat == op[1].format

RecordErrors == {record.errors.record[i] : i \in DOMAIN record.errors.record}

\* C16: a conflict between the declared format and the text is recorded as
\* a record-level error and decode returns the record: declared EURING2000
\* and a '|' in the text; declared EURING2000 and a text whose length is not
\* 94 (an error about the length); declared EURING2000PLUS or EURING2020
\* and no '|' in the text.
C16_DeclaredConflicts ==
  JustDecoded =>
    /\ (DeclaredFormat = FORMAT_EURING2000 /\ HasChar(DecodedText, "|"))
         => MSG_PIPE_CONFLICT \in RecordErrors
    /\ (DeclaredFormat = FORMAT_EURING2000 /\ Len(DecodedText) # RecordLength)
         => RecordErrors \cap {MSG_EXACT_LENGTH, MSG_BEYOND_94} # {}
    /\ (DeclaredFormat \in {FORMAT_EURING2000PLUS, FORMAT_EURING2020}
         /\ ~HasChar(DecodedText, "|"))
         => MSG_FIXED_CONFLICT \in RecordErrors

\* the two conflicts about '|' alone
PipeConflicts ==
  JustDecoded =>
    /\ (DeclaredFormat = FORMAT_EURING2000 /\ HasChar(DecodedText, "|"))
         => MSG_PIPE_CONFLICT \in RecordErrors
    /\ (DeclaredFormat \in {FORMAT_EURING2000PLUS, FORMAT_EURING2020}
         /\ ~HasChar(DecodedText, "|"))
         => MSG_FIXED_CONFLICT \in RecordErrors

\* the keys of the canonical field list of the record's format
FormatKeys == KeysOf(_fields_for_format(record.format))

\* C17: after any sequence of decode and set, every key present in the
\* record's field map belongs to the canonical key list of the record's
\* format.
C17_FieldSet ==
  record.format # NoFormat =>
    \A key \in EURING2020_KEYS : record.fields[key].present => key \in FormatKeys

\* a fixed-width text with non-blank characters past position 94
ExcessCharacters ==
  /\ ~HasChar(DecodedText, "|")
  /\ str_strip(SliceFrom(DecodedText, RecordLength)) # <<>>

\* a delimited text with a non-blank token beyond the fields of the resolved format
ExcessTokens ==
  /\ HasChar(DecodedText, "|")
  /\ \E i \in DOMAIN str_split(DecodedText) :
       /\ i > Len(_fields_for_format(record.format))
       /\ str_strip(str_split(DecodedText)[i]) # <<>>

\* C18: decode records a record-level error whenever the text has non-blank
\* characters past position 94 of a fixed-width text, or non-blank tokens
\* beyond the field count of the resolved format in a delimited text.
C18_ExcessInput ==
  (JustDecoded /\ (ExcessCharacters \/ ExcessTokens)) => record.errors.record # <<>>

\* the fixed-width part alone
ExcessCharactersReported ==
  (JustDecoded /\ ExcessCharacters) => MSG_BEYOND_94 \in RecordErrors

\* a fixed-width text with excess characters was decoded
ExcessCharactersDecoded == JustDecoded /\ ExcessCharacters

\* validate() was the last call
JustValidated == op # <<>> /\ Last.name = "validate"

\* C19: a second validate() called right after a first returns the errors
\* of the first and leaves the value of every slot as the first left it.
C19_ValidateIdempotent ==
  LET Same(again) ==
        /\ again.errors = record.errors
        /\ \A key \in EURING2020_KEYS :
             again.fields[key].value = record.fields[key].value
  IN JustValidated => Same(validate(record))

(***************************************************************************)
(* Properties of the coordinate codec.                                     *)
(***************************************************************************)
\* C12: for a combined coordinate text that passes the coordinate
\* validation, a zero degree part with a "-" sign included, the pair
\* euring_coordinates_to_lat_lng returns is turned back into the same text by
\* lat_lng_to_euring_coordinates.
C12_RoundTrip ==
  (/\ Len(op) = 2
   /\ op[1].name = "euring_coordinates_to_lat_lng"
   /\ _validate_euring_coordinates(op[1].value)
   /\ op[2].name = "lat_lng_to_euring_coordinates")
  => result.v.s = op[1].value

\* the text has a sign followed by digits only
SignedDigits(text) ==
  /\ text # <<>> /\ text[1] \in {"+", "-"}
  /\ \A i \in 2..Len(text) : text[i] \in Digits

\* the pair just encoded
Encoded == op # <<>> /\ Last.name = "lat_lng_to_euring_coordinates"

\* C20 as stated: lat_lng_to_euring_coordinates returns exactly 15 characters
\* for every pair of input values.
C20_AsStated == Encoded => Len(result.v.s) = 15

\* C20 amended: for a latitude of at most 90 degrees and a longitude of at
\* most 180 degrees in magnitude the text has exactly 15 characters: a sign
\* and 6 digits for the latitude, a sign and 7 digits for the longitude, also
\* when the seconds and the minutes carry into the degrees.
C20_FifteenInRange ==
  (/\ Encoded
   /\ Last.value.n <= Dms(90, 0, 0, 0)
   /\ Last.value.lng <= Dms(180, 0, 0, 0))
  => /\ Len(result.v.s) = 15
     /\ SignedDigits(Slice(result.v.s, 0, 7))
     /\ SignedDigits(SliceFrom(result.v.s, 7))

C20_Witness ==
  /\ Encoded
  /\ Last.value.n = Dms(89, 59, 59, 40)
  /\ Last.value.lng = Dms(9, 59, 59, 30)
  /\ result.v.s = <<"+", "9", "0", "0", "0", "0", "0", "+", "0", "1", "0", "0", "0", "0", "0">>

(***************************************************************************)
(* Properties of the raw split.                                            *)
(***************************************************************************)
JustSplit == op # <<>> /\ Last.name = "euring_record_to_dict"

\* the fields of the format the text was built for
SplitFields == _fields_for_format(Last.format)

\* every raw value of a fixed-width text has its field's length
ExactLengths ==
  Last.format = FORMAT_EURING2000
    => \A i \in DOMAIN SplitFields : Len(Last.value[i]) = SplitFields[i].length

\* no raw value of a pipe-delimited text holds the separator
SeparatorFree ==
  Last.format # FORMAT_EURING2000
    => \A i \in DOMAIN SplitFields : ~HasChar(Last.value[i], "|")

\* the key-to-value mapping the text was built from, in canonical order
OriginalMapping ==
  [i \in DOMAIN SplitFields |-> [key |-> SplitFields[i].key, value |-> Last.value[i]]]

\* C21 as stated: the text built from one raw value per field of a format
\* (each of its field's length in EURING2000) splits into the original mapping.
C21_AsStated ==
  (JustSplit /\ ExactLengths) => (result.ok /\ result.v = OriginalMapping)

\* C21: the text built from one raw value per field of a format, each of its
\* field's length in EURING2000 and none holding "|" in the pipe-delimited
\* formats, splits into exactly the original mapping, keys in canonical order.
C21_RawSplitRoundTrip ==
  (JustSplit /\ ExactLengths /\ SeparatorFree)
    => (result.ok /\ result.v = OriginalMapping)

C21_Witness ==
  /\ JustSplit /\ ExactLengths /\ SeparatorFree
  /\ Last.format = FORMAT_EURING2000
  /\ \E i \in DOMAIN SplitFields : is_all_hyphens(Last.value[i])
  /\ result.ok /\ Len(result.v) = Len(EURING2000_FIELDS)

(***************************************************************************)
(* Properties of the decimal-to-DMS conversion.                            *)
(***************************************************************************)
\* the latitude and the longitude just encoded
EncodedValues == {LatOf(Last.value), LngOf(Last.value)}

\* the value is below zero (minus zero is not)
IsNegative(value) == value.neg /\ value.u > 0

\* the magnitude the components denote, in arc-seconds
DenotedSeconds(parts) ==
  (IF parts.degrees < 0 THEN 0 - parts.degrees ELSE parts.degrees) * 3600
    + parts.minutes * 60 + parts.seconds

\* the minutes and seconds are in 0..59 and the denoted magnitude is the
\* input's magnitude in arc-seconds rounded to a nearest integer
RangesAndMagnitude ==
  LET UnitsPerSecond == UnitsPerDegree \div 3600
      Normal(value, parts) ==
        /\ parts.minutes \in 0..59 /\ parts.seconds \in 0..59
        /\ 2 * (DenotedSeconds(parts) * UnitsPerSecond - value.u) <= UnitsPerSecond
        /\ 2 * (value.u - DenotedSeconds(parts) * UnitsPerSecond) <= UnitsPerSecond
  IN Encoded => \A value \in EncodedValues :
                  Normal(value, _decimal_to_euring_coordinate_components(value))

\* C22: the minutes and seconds of the output are in 0..59, its sign
\* character is "-" exactly when the input is negative, inputs strictly
\* between -1 and 0 included, and the magnitude it denotes is the input's
\* magnitude in arc-seconds rounded to the nearest integer.
C22_Normalisation ==
  /\ RangesAndMagnitude
  /\ Encoded => \A value \in EncodedValues :
                  (_decimal_to_euring_coordinate(value, 3)[1] = "-") <=> IsNegative(value)

\* a value whose seconds and minutes carry into the degrees was encoded
CarryEncoded ==
  /\ Encoded
  /\ Last.value.n = Dms(59, 59, 59, 30)
  /\ SubSeq(result.v.s, 2, 7) = <<"6", "0", "0", "0", "0", "0">>

(***************************************************************************)
(* Properties of the format resolution.                                    *)
(***************************************************************************)
\* a text was decoded without a format hint
DecodedUnhinted == Len(op) = 1 /\ op[1].name = "decode" /\ op[1].format = NoFormat

\* a text was converted without a source format
ConvertedUnhinted == op # <<>> /\ Last.name = "convert" /\ Last.source = NoFormat

\* the converter resolves the source format of a text given without one to
\* the format euring_detect_format returns
ConverterResolution ==
  ConvertedUnhinted
    => _normalize_source_format(NoFormat, Last.value) = euring_detect_format(Last.value)

\* C23: for a text given without a format, the format of the record decode
\* returns and the source format the converter resolves both equal
\* euring_detect_format(text).
C23_FormatResolution ==
  /\ DecodedUnhinted => record.format = euring_detect_format(op[1].value)
  /\ ConverterResolution

\* a text of more than 60 tokens with a numeric accuracy and its last four
\* tokens empty was converted without a source format
ConvertedEmptyTail ==
  /\ ConvertedUnhinted
  /\ Len(str_split(Last.value)) = Len(EURING2020_FIELDS)
  /\ \A key \in EURING2020_ONLY_KEYS : TokenOf(Last.value, key) = <<>>
  /\ ~str_isalpha(TokenOf(Last.value, "accuracy_of_coordinates"))
  /\ _normalize_source_format(NoFormat, Last.value) = FORMAT_EURING2020

(***************************************************************************)
(* Properties of the field schema: encoding and parsing.                   *)
(***************************************************************************)
\* the field definition, the value and the format of the last call
LastField == FieldOf(Last.key)

EncodedForFormat == op # <<>> /\ Last.name = "encode_for_format"

SerializedFieldValue == op # <<>> /\ Last.name = "_serialize_field_value"

\* the text of an absent value: the placeholder, the hyphens or nothing
AbsentText(f, format) ==
  IF f.empty_value # <<>> THEN f.empty_value
  ELSE IF format = FORMAT_EURING2000 /\ f.length # 0 THEN Rep("-", f.length)
  ELSE IF f.required /\ f.type_name = TYPE_INTEGER /\ f.length # 0 THEN Rep("-", f.length)
  ELSE <<>>

IsNumber(v) == v.t \in {"int", "float"}

\* a number was encoded to text for a field of a numeric type with a length
NumberEncoded ==
  /\ op # <<>> /\ Last.name \in {"encode_for_format", "_serialize_field_value"}
  /\ IsNumber(Last.value)
  /\ LastField.type_name \in {TYPE_INTEGER, TYPE_NUMERIC, TYPE_NUMERIC_SIGNED}
  /\ LastField.length # 0
  /\ result.ok

\* the digits of a decimal text, without its sign
Unsigned(text) == IF text # <<>> /\ text[1] = "-" THEN Tail(text) ELSE text

\* a zero is followed by another digit at the front of the text
LeadingZeros(text) ==
  Len(Unsigned(text)) >= 2 /\ Unsigned(text)[1] = "0" /\ Unsigned(text)[2] \in Digits

\* the text of a number is filled to the field's length when the format is
\* EURING2000 or the field is not variable-length, and starts with no zeros
\* otherwise
PaddedAsDeclared ==
  IF Last.format = FORMAT_EURING2000 \/ ~LastField.variable_length
  THEN Len(result.v.s) = LastField.length
  ELSE ~LeadingZeros(result.v.s) /\ Unsigned(result.v.s) # <<>>

\* _serialize_field_value pads the text of a number as the field declares
SerializerPadding == (NumberEncoded /\ SerializedFieldValue) => PaddedAsDeclared

\* C25: the text of a non-empty Integer, Numeric or NumericSigned value is
\* zero-padded to the field's length exactly when the format is EURING2000 or
\* the field is not variable-length; for a variable-length field in a
\* pipe-delimited format it has no leading zeros, negative values included.
C25_NumberPadding == NumberEncoded => PaddedAsDeclared

\* a negative number was encoded for a variable-length field in a
\* pipe-delimited format by _serialize_field_value
NegativeSerialized ==
  /\ NumberEncoded /\ SerializedFieldValue
  /\ Last.value.neg /\ LastField.variable_length /\ Last.format = FORMAT_EURING2020
  /\ result.v.s = <<"-", "1", ".", "5">>

\* the last operation parsed a raw text with a field definition
Parsed == op # <<>> /\ Last.name = "parse"

\* the parsed text breaks the field's length: exact for a fixed field, a
\* maximum for a variable-length field
LengthViolated ==
  /\ LastField.length # 0
  /\ IF LastField.variable_length
     THEN Len(Last.value) > LastField.length
     ELSE Len(Last.value) # LastField.length

\* the parsed text is not of the field's type
TypeViolated ==
  LastField.type_name # "" /\ ~is_valid_euring_type(Last.value, LastField.type_name)

\* empty text: absent for an optional field, the 'required field empty'
\* constraint error for a required field
EmptyContract ==
  (Parsed /\ Last.value = <<>>) =>
    IF LastField.required
    THEN result = Raise(EuringConstraintException, MSG_REQUIRED_EMPTY)
    ELSE result = Ok(NoneV)

\* text that breaks both the length and the type fails with the length error
LengthFirst ==
  (Parsed /\ Last.value # <<>> /\ LengthViolated /\ TypeViolated) =>
    result = Raise(EuringConstraintException, MSG_LENGTH)

\* an Integer field has parsed a hyphen-only text of an accepted length
HyphenInteger ==
  /\ Parsed
  /\ LastField.type_name = TYPE_INTEGER
  /\ is_all_hyphens(Last.value)
  /\ ~LengthViolated

RequiredEmptyParsed ==
  Parsed /\ Last.value = <<>> /\ LastField.required /\ ~result.ok

LengthAndTypeViolated ==
  Parsed /\ LengthViolated /\ TypeViolated /\ ~result.ok

HyphenDateParsed == HyphenInteger /\ LastField.parser = "parse_date" /\ ~result.ok

(***************************************************************************)
(* Properties of the structural errors of a decoded record.                *)
(***************************************************************************)
\* the record-level errors that decoding the text found
StructuralErrors == _decode_raw_record(DecodedText, op[1].format).record_errors

\* a record decoded with structural errors was validated or serialized again
Revalidated ==
  /\ Decoded
  /\ Len(op) >= 2
  /\ Last.name \in {"validate", "serialize"}
  /\ StructuralErrors # <<>>

\* decode itself reports the structural errors
DecodeReportsStructural ==
  (Decoded /\ Len(op) = 1 /\ StructuralErrors # <<>>) =>
    record.errors.record = StructuralErrors

\* C27: for a record returned by decode with record-level errors, a later
\* validate() still returns those record-level errors, and serialize() raises
\* instead of returning text.
C27_StructuralErrorsSurvive ==
  Revalidated =>
    /\ record.errors.record = StructuralErrors
    /\ Last.name = "serialize" => ~result.ok

\* a record decoded with structural errors was serialized to a text
StructuralErrorsSerialized ==
  Revalidated /\ Last.name = "serialize" /\ result.ok /\ record.errors.record = <<>>

(***************************************************************************)
(* Properties of the export.                                               *)
(***************************************************************************)
\* the last operation exported the record with the default warn_on_loss
Exported == op # <<>> /\ Last.name = "export" /\ Last.key = ""

\* the export was to another format, and the record serialized to a text
ExportedToOther ==
  /\ Exported
  /\ Last.format \in FORMAT_VALUES /\ Last.format # Last.source
  /\ Last.value.ok

\* the conversion of the serialized text to the target of the export,
\* without force and with it
Attempt ==
  [forced \in BOOLEAN |->
     _convert_record_string(Last.value.v.s, Last.source, Last.format, forced)]

\* C28: export(target, force=True) to another format first attempts the
\* conversion without force; if that fails it emits the failure as a warning
\* and returns the outcome of the conversion with force; if it succeeds it
\* returns that result and emits no warning; export with force=False
\* propagates the loss error; export to the record's own format returns
\* serialize().
C28_Export ==
  /\ (Exported /\ Last.format = Last.source) => (result = Last.value /\ warnings = <<>>)
  /\ ExportedToOther =>
       \E attempt \in {Attempt} :
         IF ~Last.force THEN result = attempt[FALSE] /\ warnings = <<>>
         ELSE IF attempt[FALSE].ok THEN result = attempt[FALSE] /\ warnings = <<>>
         ELSE result = attempt[TRUE] /\ warnings = <<attempt[FALSE]>>

\* a forced export returned text after warning of the loss
C28_Witness ==
  /\ ExportedToOther /\ Last.force
  /\ result.ok
  /\ Len(warnings) = 1 /\ warnings[1].reasons # {}

\* the other cases of the export
ExportedWithoutWarning ==
  ExportedToOther /\ Last.force /\ result.ok /\ warnings = <<>>

ExportLossPropagated ==
  ExportedToOther /\ ~Last.force /\ ~result.ok /\ result.reasons # {}

ExportedToOwn == Exported /\ Last.format = Last.source /\ result.ok

(***************************************************************************)
(* Properties of the conversion's output under the target format.          *)
(***************************************************************************)
\* the source record of the last conversion, decoded under its format, and
\* the output decoded under the target format
SourceRecord == decode(Last.value, _normalize_source_format(Last.source, Last.value))

TargetRecord == decode(result.v.s, Last.format)

\* the typed values of a record for the fields of a format
TypedValues(rec, format) ==
  [i \in DOMAIN _fields_for_format(format) |->
     rec.fields[_fields_for_format(format)[i].key].value]

\* a conversion has just been made of a record that is valid in its format
\* and that converts without force
ConvertedValid ==
  /\ Converted
  /\ _convert_record_string(Last.value, Last.source, Last.format, FALSE).ok
  /\ ~has_errors(SourceRecord.errors)

\* the output is valid under the target format and holds the typed values
\* of the source for the target's fields
TargetValid ==
  /\ result.ok
  /\ \E source \in {SourceRecord}, target \in {TargetRecord} :
       /\ ~has_errors(target.errors)
       /\ TypedValues(target, Last.format) = TypedValues(source, Last.format)

\* C29: for every source record that is valid in its format and has no
\* potential loss toward the target, the converted text is valid under the
\* target format (no record and no field errors) and its typed value equals
\* the source's for every field of the target's list; a variable-length value
\* shorter than its width is zero-padded in EURING2000.
C29_ConversionReencodes == ConvertedValid => TargetValid

\* a short variable-length value was converted to EURING2000
ShortValueConverted ==
  /\ ConvertedValid /\ Last.format = FORMAT_EURING2000 /\ result.ok
  /\ TokenOf(Last.value, "distance") = <<"1", "8">>

\* the short value is filled with hyphens in the output
HyphenPadded ==
  ShortValueConverted /\ TokenOf(result.v.s, "distance") = <<"1", "8", "-", "-", "-">>

(***************************************************************************)
(* Properties of the numeric values.                                       *)
(***************************************************************************)
\* the keys of the Numeric and NumericSigned fields of a format
NumericKeys(format) ==
  {_fields_for_format(format)[i].key : i \in
     {j \in DOMAIN _fields_for_format(format) :
        _fields_for_format(format)[j].type_name \in {TYPE_NUMERIC, TYPE_NUMERIC_SIGNED}}}

\* the number a typed value is, as a float
NumberOf(v) == IF v.t = "int" THEN FloatV(FALSE, v.n * FloatScale) ELSE FloatV(v.neg, v.n)

\* the same number, the zeros -0.0 and 0.0 being equal
SameNumber(a, b) == a.n = b.n /\ (a.n = 0 \/ a.neg = b.neg)

\* after decode or validate, a numeric field whose raw text is an accepted
\* decimal literal holds the number the text denotes
DecodePreservesNumbers ==
  (Decoded /\ Last.name \in {"decode", "validate"}) =>
    \A key \in NumericKeys(record.format) :
      (/\ RawOf(key) # <<>>
       /\ is_valid_euring_type(RawOf(key), FieldOf(key).type_name)
       /\ ErrorsOn(key) = {})
      => /\ record.fields[key].value.t = "float"
         /\ SameNumber(record.fields[key].value, FloatOf(RawOf(key)))

\* the text serialize() returns denotes, for a numeric field, the number the
\* record holds
SerializePreservesNumbers ==
  (op # <<>> /\ Last.name = "serialize" /\ result.ok /\ record.format # FORMAT_EURING2000) =>
    \A key \in NumericKeys(record.format) :
      IsNumber(record.fields[key].value) =>
        /\ is_valid_euring_type(TokenOf(result.v.s, key), FieldOf(key).type_name)
        /\ SameNumber(FloatOf(TokenOf(result.v.s, key)), NumberOf(record.fields[key].value))

\* C30: for every Numeric or NumericSigned field and every raw decimal
\* literal accepted for it, including integer literals that end in zero, the
\* typed value stored after decode/validate equals the number the raw text
\* denotes, and encoding a typed numeric value yields text that denotes the
\* same number.
C30_NumericPreserved == DecodePreservesNumbers /\ SerializePreservesNumbers

\* a decoded integer literal ending in zero lost its zero
TrailingZeroLost ==
  /\ Decoded /\ Len(op) = 1
  /\ RawOf("wing_length") = <<"1", "2", "0">>
  /\ record.fields["wing_length"].value = FloatV(FALSE, 12 * FloatScale)

\* the encoders of the field schema: the text of a number denotes the number
EncoderPreservesNumbers ==
  (/\ op # <<>> /\ Last.name \in {"encode_for_format", "_serialize_field_value"}
   /\ IsNumber(Last.value)
   /\ LastField.type_name \in {TYPE_NUMERIC, TYPE_NUMERIC_SIGNED}
   /\ result.ok)
  => /\ is_valid_euring_type(result.v.s, LastField.type_name)
     /\ SameNumber(FloatOf(result.v.s), NumberOf(Last.value))

\* an integer ending in zero was encoded without its zero
IntegerZeroLost ==
  /\ op # <<>> /\ Last.name = "encode_for_format" /\ Last.key = "wing_length"
  /\ Last.value = IntV(120) /\ result = Ok(StrV(<<"1", "2">>))

=============================================================================
